---------------------------- MODULE Spec2Model ----------------------------
(***************************************************************************)
(* Verification model of db-backup: the identifier and path guard          *)
(* (pkg/validation), and the postgres, mysql and mongodb drivers           *)
(* (internal/database/...).                                                *)
(*                                                                         *)
(* Go strings are modelled as sequences of one-character strings, so that  *)
(* len, HasPrefix, Contains, concatenation and regexp matching are         *)
(* computed on the characters themselves.                                  *)
(***************************************************************************)
EXTENDS Naturals, Integers, Sequences, FiniteSets, TLC

VARIABLES
    callFn,     \* guard: the guard function applied to callArg ("" = not yet applied)
    callArg,    \* guard: the arguments of the call under check
    callRet,    \* guard: what the call returned
    drv,        \* driver: which driver the instance is ("postgres", "mysql", "mongodb")
    config,     \* driver: d.config (NoConfig before the first successful Connect)
    op,         \* driver: the method being executed ("" = idle)
    pc,         \* driver: position inside the method
    opts,       \* driver: the BackupOptions / RestoreOptions / arguments of the call
    result,     \* driver: the *BackupResult / *RestoreResult under construction
    retErr,     \* driver: the error value returned by the method
    cmd,        \* driver: the exec.Cmd built by the method (NoCmd before)
    proc,       \* driver: state of the subprocess ("none", "running", "exited")
    outFile,    \* driver: the file at OutputPath ("untouched", "created")
    query,      \* driver: the statement last sent over the metadata connection
    ctx,        \* driver: the context of the call ("live", "cancelled")
    signals,    \* driver: the signals sent to the subprocess, in order
    runOpts,    \* backup command: the flags of the run
    runPc,      \* backup command: position inside runBackup
    runErr,     \* backup command: the error runBackup returns
    metadata,   \* backup command: what engine.CreateBackup returned
    createErr,  \* backup command: the error engine.CreateBackup returned
    saveCalls,  \* backup command: the calls of repo.Save, with their outcome
    catalog,    \* the descriptors the repository holds
    storage,    \* the artifacts the storage holds
    now,        \* clock: the last reading time.Now() returned
    mintPc,     \* minting: position of each goroutine inside GenerateBackupID
    stamp,      \* minting: the formatted timestamp each goroutine holds
    minted,     \* minting: the IDs GenerateBackupID returned, in order
    driverRegistry, \* registry: the map from database type to factory
    driversMu,  \* registry: the RWMutex (its writer, its readers)
    calls,      \* registry: the call each goroutine makes
    regPc,      \* registry: position of each goroutine inside its call
    lookup,     \* registry: factory, ok of each CreateDriver
    returned,   \* registry: what each CreateDriver returned
    instances,  \* registry: the driver instances the factories have made
    handles,    \* connection: the handles the instance has opened ("open", "closed")
    db,         \* connection: d.db / d.client, the stored handle (0 = nil)
    dbConfig,   \* connection: d.config as Connect stores it (0 = nil)
    conn        \* connection: the Connect or Disconnect call in progress

guardVars == <<callFn, callArg, callRet>>
driverVars == <<drv, config, op, pc, opts, result, retErr, cmd, proc, outFile, query,
               ctx, signals>>
commandVars == <<runOpts, runPc, runErr, metadata, createErr, saveCalls, catalog, storage>>
mintVars == <<now, mintPc, stamp, minted>>
registryVars == <<driverRegistry, driversMu, calls, regPc, lookup, returned, instances>>
connVars == <<handles, db, dbConfig, conn>>
nonGuardVars == <<driverVars, commandVars, mintVars, registryVars, connVars>>
nonDriverVars == <<guardVars, commandVars, mintVars, registryVars, connVars>>
nonCommandVars == <<guardVars, driverVars, mintVars, registryVars, connVars>>
nonMintVars == <<guardVars, driverVars, commandVars, registryVars, connVars>>
nonRegistryVars == <<guardVars, driverVars, commandVars, mintVars, connVars>>
nonConnVars == <<guardVars, driverVars, commandVars, mintVars, registryVars>>
vars == <<callFn, callArg, callRet, drv, config, op, pc, opts, result, retErr,
          cmd, proc, outFile, query, ctx, signals,
          runOpts, runPc, runErr, metadata, createErr, saveCalls, catalog, storage,
          now, mintPc, stamp, minted,
          driverRegistry, driversMu, calls, regPc, lookup, returned, instances,
          handles, db, dbConfig, conn>>

Nil == "nil"

(***************************************************************************)
(* Strings.                                                                *)
(***************************************************************************)
Lower == {"a","b","c","d","e","f","g","h","i","j","k","l","m",
          "n","o","p","q","r","s","t","u","v","w","x","y","z"}
Upper == {"A","B","C","D","E","F","G","H","I","J","K","L","M",
          "N","O","P","Q","R","S","T","U","V","W","X","Y","Z"}
Digit == {"0","1","2","3","4","5","6","7","8","9"}
HexLower == {"a","b","c","d","e","f"} \cup Digit

\* All strings over alphabet A of length at most n.
Strs(A, n) == UNION {[1..k -> A] : k \in 0..n}

\* k copies of character c.
Repeat(c, k) == [i \in 1..k |-> c]

\* strings.HasPrefix
HasPrefix(s, prefix) ==
    /\ Len(s) >= Len(prefix)
    /\ \A i \in 1..Len(prefix) : s[i] = prefix[i]

\* strings.Contains
Contains(s, sub) ==
    \E i \in 0..(Len(s) - Len(sub)) : \A j \in 1..Len(sub) : s[i + j] = sub[j]

(***************************************************************************)
(* Regular expressions of the guard.  A character-class regexp ^[class]+$  *)
(* is the class; a fixed-width regexp is its sequence of classes.  Go's $  *)
(* (no multi-line flag) matches only at the end of the text.               *)
(***************************************************************************)
DatabaseNameRegex == Lower \cup Upper \cup Digit \cup {"_", "-"}

TableNameRegex == Lower \cup Upper \cup Digit \cup {"_", ".", "-"}

Lit(s) == [i \in 1..Len(s) |-> {s[i]}]

Times(class, n) == [i \in 1..n |-> class]

BackupIDRegex ==
    Lit(<<"b","a","c","k","u","p","-">>)
    \o Times(Digit, 4) \o Lit(<<"-">>) \o Times(Digit, 2) \o Lit(<<"-">>)
    \o Times(Digit, 2) \o Lit(<<"-">>) \o Times(Digit, 2) \o Lit(<<"-">>)
    \o Times(Digit, 2) \o Lit(<<"-">>) \o Times(Digit, 2) \o Lit(<<"-">>)
    \o Times(HexLower, 8)

\* ^[class]+$
MatchClassPlus(class, s) == Len(s) >= 1 /\ \A i \in 1..Len(s) : s[i] \in class

\* ^c1 c2 ... cn$ for single-character classes c1..cn
MatchFixed(re, s) == Len(s) = Len(re) /\ \A i \in 1..Len(s) : s[i] \in re[i]

MaxDatabaseNameLen == 64
MaxTableNameLen == 128

(***************************************************************************)
(* pkg/validation                                                          *)
(***************************************************************************)
ValidateDatabaseName_TableRegex(name) ==
    IF name = <<>> THEN "database name cannot be empty"
    ELSE IF Len(name) > MaxDatabaseNameLen THEN "database name too long (max 64 characters)"
    ELSE IF HasPrefix(name, <<"-">>) THEN "database name cannot start with dash"
    ELSE IF HasPrefix(name, <<".">>) THEN "database name cannot start with dot"
    ELSE IF ~MatchClassPlus(TableNameRegex, name) THEN "database name contains invalid characters"
    ELSE Nil

ValidateDatabaseName(name) ==
    IF name = <<>> THEN "database name cannot be empty"
    ELSE IF Len(name) > MaxDatabaseNameLen THEN "database name too long (max 64 characters)"
    ELSE IF HasPrefix(name, <<"-">>) THEN "database name cannot start with dash"
    ELSE IF HasPrefix(name, <<".">>) THEN "database name cannot start with dot"
    ELSE IF ~MatchClassPlus(DatabaseNameRegex, name) THEN "database name contains invalid characters"
    ELSE Nil

ValidateTableName_OffByOne(name) ==
    IF name = <<>> THEN "table name cannot be empty"
    ELSE IF Len(name) >= MaxTableNameLen THEN "table name too long (max 128 characters)"
    ELSE IF HasPrefix(name, <<"-">>) THEN "table name cannot start with dash"
    ELSE IF HasPrefix(name, <<".">>) THEN "table name cannot start with dot"
    ELSE IF ~MatchClassPlus(TableNameRegex, name) THEN "table name contains invalid characters"
    ELSE Nil

ValidateTableName(name) ==
    IF name = <<>> THEN "table name cannot be empty"
    ELSE IF Len(name) > MaxTableNameLen THEN "table name too long (max 128 characters)"
    ELSE IF HasPrefix(name, <<"-">>) THEN "table name cannot start with dash"
    ELSE IF HasPrefix(name, <<".">>) THEN "table name cannot start with dot"
    ELSE IF ~MatchClassPlus(TableNameRegex, name) THEN "table name contains invalid characters"
    ELSE Nil

ValidateBackupID_PrefixMatch(id) ==
    IF id = <<>> THEN "backup ID cannot be empty"
    ELSE IF Contains(id, <<".", ".">>) THEN "backup ID cannot contain '..'"
    ELSE IF Contains(id, <<"/">>) \/ Contains(id, <<"\\">>)
         THEN "backup ID cannot contain path separators"
    ELSE IF ~(Len(id) >= Len(BackupIDRegex)
              /\ MatchFixed(BackupIDRegex, SubSeq(id, 1, Len(BackupIDRegex))))
         THEN "backup ID has invalid format"
    ELSE Nil

ValidateBackupID(id) ==
    IF id = <<>> THEN "backup ID cannot be empty"
    ELSE IF Contains(id, <<".", ".">>) THEN "backup ID cannot contain '..'"
    ELSE IF Contains(id, <<"/">>) \/ Contains(id, <<"\\">>)
         THEN "backup ID cannot contain path separators"
    ELSE IF ~MatchFixed(BackupIDRegex, id) THEN "backup ID has invalid format"
    ELSE Nil


(***************************************************************************)
(* path/filepath, as SanitizePath uses it (Unix: separator '/', no volume  *)
(* names).  Paths stay character sequences; Clean, Join, Abs and Rel are   *)
(* computed on their components.                                           *)
(***************************************************************************)
Sep == "/"
Dot == <<".">>
DotDot == <<".", ".">>

\* strings.Split(s, "/")
RECURSIVE SplitPath(_)
SplitPath(s) ==
    IF s = <<>> THEN << <<>> >>
    ELSE LET rest == SplitPath(Tail(s))
         IN  IF Head(s) = Sep
             THEN << <<>> >> \o rest
             ELSE << <<Head(s)>> \o Head(rest) >> \o Tail(rest)

\* strings.Join(elems, "/")
RECURSIVE JoinPath(_)
JoinPath(elems) ==
    IF elems = <<>> THEN <<>>
    ELSE IF Len(elems) = 1 THEN Head(elems)
    ELSE Head(elems) \o <<Sep>> \o JoinPath(Tail(elems))

IsAbs(p) == HasPrefix(p, <<Sep>>)

\* One element of Clean's scan: "" and "." are dropped, ".." removes the
\* previous element (or is kept in front of a relative path, or dropped at
\* the root), any other element is appended.
CleanStep(stack, elem, rooted) ==
    IF elem = <<>> \/ elem = Dot THEN stack
    ELSE IF elem = DotDot
         THEN IF Len(stack) > 0 /\ stack[Len(stack)] # DotDot
              THEN SubSeq(stack, 1, Len(stack) - 1)
              ELSE IF ~rooted THEN Append(stack, elem) ELSE stack
    ELSE Append(stack, elem)

RECURSIVE CleanScan(_, _, _)
CleanScan(stack, elems, rooted) ==
    IF elems = <<>> THEN stack
    ELSE CleanScan(CleanStep(stack, Head(elems), rooted), Tail(elems), rooted)

\* filepath.Clean
Clean(p) ==
    IF p = <<>> THEN Dot
    ELSE LET rooted == IsAbs(p)
             out == (IF rooted THEN <<Sep>> ELSE <<>>)
                    \o JoinPath(CleanScan(<<>>, SplitPath(p), rooted))
         IN  IF out = <<>> THEN Dot ELSE out

\* filepath.Join(a, b) for non-empty a and b
Join(a, b) == Clean(a \o <<Sep>> \o b)

\* filepath.Abs: wd is os.Getwd(), [ok |-> FALSE] when the working
\* directory cannot be determined.
Abs(p, wd) ==
    IF IsAbs(p) THEN [path |-> Clean(p), err |-> Nil]
    ELSE IF ~wd.ok THEN [path |-> <<>>, err |-> "getwd failed"]
    ELSE [path |-> Join(wd.dir, p), err |-> Nil]

\* The non-empty elements of a cleaned path.
Elems(p) == SelectSeq(SplitPath(p), LAMBDA e : e # <<>>)

\* Number of leading elements two element lists share.
RECURSIVE CommonLen(_, _)
CommonLen(a, b) ==
    IF a = <<>> \/ b = <<>> \/ Head(a) # Head(b) THEN 0
    ELSE 1 + CommonLen(Tail(a), Tail(b))

\* filepath.Rel
Rel(basepath, targpath) ==
    LET base0 == Clean(basepath)
        targ == Clean(targpath)
        base == IF base0 = Dot THEN <<>> ELSE base0
    IN  IF targ = base0 THEN [path |-> Dot, err |-> Nil]
        ELSE IF IsAbs(base) # IsAbs(targ)
             THEN [path |-> <<>>, err |-> "Rel: can't make path relative"]
        ELSE LET b == Elems(base)
                 t == Elems(targ)
                 k == CommonLen(b, t)
                 restB == SubSeq(b, k + 1, Len(b))
                 restT == SubSeq(t, k + 1, Len(t))
             IN  IF restB # <<>> /\ Head(restB) = DotDot
                 THEN [path |-> <<>>, err |-> "Rel: can't make path relative"]
                 ELSE [path |-> JoinPath([i \in 1..Len(restB) |-> DotDot] \o restT),
                       err |-> Nil]

SanitizePath_StringPrefix(path, baseDir, wd) ==
    LET cleaned == Clean(path)
    IN  IF baseDir # <<>>
        THEN LET absBase == Abs(baseDir, wd)
                 absPath == Abs(cleaned, wd)
             IN  IF absBase.err # Nil
                 THEN [path |-> <<>>, err |-> "invalid base directory"]
                 ELSE IF absPath.err # Nil
                 THEN [path |-> <<>>, err |-> "invalid path"]
                 ELSE IF ~HasPrefix(absPath.path, absBase.path)
                 THEN [path |-> <<>>, err |-> "path traversal detected"]
                 ELSE [path |-> cleaned, err |-> Nil]
        ELSE [path |-> cleaned, err |-> Nil]

\* validation.SanitizePath
SanitizePath(path, baseDir, wd) ==
    LET cleaned == Clean(path)
    IN  IF baseDir # <<>>
        THEN LET absBase == Abs(baseDir, wd)
                 absPath == Abs(cleaned, wd)
             IN  IF absBase.err # Nil
                 THEN [path |-> <<>>, err |-> "invalid base directory"]
                 ELSE IF absPath.err # Nil
                 THEN [path |-> <<>>, err |-> "invalid path"]
                 ELSE LET rel == Rel(absBase.path, absPath.path)
                      IN  IF rel.err # Nil \/ HasPrefix(rel.path, DotDot)
                          THEN [path |-> <<>>, err |-> "path traversal detected"]
                          ELSE [path |-> cleaned, err |-> Nil]
        ELSE [path |-> cleaned, err |-> Nil]

(***************************************************************************)
(* pkg/errors.  An error value is its Unwrap chain, outermost layer first; *)
(* the nil error is the empty chain.                                       *)
(***************************************************************************)
NilErr == <<>>

\* errors.New / an error of the os, exec or sql packages
PlainErr(msg) == <<[backup |-> FALSE, Type |-> "", Message |-> msg, Metadata |-> {}]>>

\* fmt.Errorf("msg: %w", inner)
Errorf(msg, inner) == PlainErr(msg) \o inner

\* errors.New(type, message) of pkg/errors
New(errType, message) ==
    <<[backup |-> TRUE, Type |-> errType, Message |-> message, Metadata |-> {}]>>

\* errors.As(err, &backupErr): the first BackupError of the chain
FirstBackupError(err) ==
    LET at == {i \in 1..Len(err) : err[i].backup}
    IN  IF at = {} THEN <<>>
        ELSE <<err[CHOOSE i \in at : \A j \in at : i <= j]>>

Wrap_TypeOverwritten(err, errType, message) ==
    IF err = NilErr THEN NilErr
    ELSE <<[backup |-> TRUE, Type |-> errType, Message |-> message, Metadata |-> {}]>> \o err

Wrap(err, errType, message) ==
    IF err = NilErr THEN NilErr
    ELSE LET found == FirstBackupError(err)
             t == IF found # <<>> /\ errType = "" THEN found[1].Type ELSE errType
         IN  <<[backup |-> TRUE, Type |-> t, Message |-> message, Metadata |-> {}]>> \o err

WithMetadata(err, key, value) ==
    [err EXCEPT ![1].Metadata = {kv \in @ : kv[1] # key} \cup {<<key, value>>}]

ErrorTypes ==
    {"DATABASE", "STORAGE", "COMPRESSION", "ENCRYPTION", "VALIDATION", "CONFIGURATION",
     "NETWORK", "RETENTION", "OPERATION", "NOT_FOUND", "INTERNAL"}

IsRetryable_AnyInChain(err) ==
    \E i \in 1..Len(err) : err[i].backup /\ err[i].Type \in {"NETWORK", "STORAGE"}

\* errors.As finds the first BackupError of the chain, if there is one
IsRetryable(err) ==
    LET found == FirstBackupError(err)
    IN  IF found # <<>>
        THEN found[1].Type = "NETWORK" \/ found[1].Type = "STORAGE"
        ELSE FALSE

ErrDatabaseConnection(err) == Wrap(err, "DATABASE", "failed to connect to database")
ErrDatabaseBackup(err) == Wrap(err, "DATABASE", "failed to create database backup")
ErrDatabaseRestore(err) == Wrap(err, "DATABASE", "failed to restore database")

(***************************************************************************)
(* Subprocess argument lists and SQL text.  An argument (or a statement)   *)
(* is the concatenation of parts; a part records the text and the field    *)
(* of the configuration or of the options it was formatted from.           *)
(***************************************************************************)
NameKinds == {"database", "table", "exclude"}

\* literal text of the source
L(text) == [src |-> "lit", lit |-> text, val |-> <<>>]
\* a field of the connection configuration or a number of the options
F(field, text) == [src |-> field, lit |-> text, val |-> <<>>]
\* a caller-supplied name or path
N(kind, name) == [src |-> kind, lit |-> "", val |-> name]

\* one argument made of one part
Arg(part) == <<part>>

\* flag, name, flag, name, ... for every name of the list
RECURSIVE Flagged(_, _, _)
Flagged(flag, kind, names) ==
    IF names = <<>> THEN <<>>
    ELSE <<Arg(L(flag)), Arg(N(kind, Head(names)))>> \o Flagged(flag, kind, Tail(names))

\* Index of the first name the validator rejects, 0 when it accepts all.
FirstRejected(names, Validate(_)) ==
    LET bad == {i \in 1..Len(names) : Validate(names[i]) # Nil}
    IN  IF bad = {} THEN 0 ELSE CHOOSE i \in bad : \A j \in bad : i <= j

BuildError(msg, guardErr) == [args |-> <<>>, err |-> Errorf(msg, PlainErr(guardErr))]

(***************************************************************************)
(* internal/database/postgres                                              *)
(***************************************************************************)
buildPgDumpArgs(cfg, o) ==
    LET badT == FirstRejected(o.Tables, ValidateTableName)
        badX == FirstRejected(o.ExcludeTables, ValidateTableName)
    IN  IF badT # 0
        THEN BuildError("invalid table name", ValidateTableName(o.Tables[badT]))
        ELSE IF badX # 0
        THEN BuildError("invalid excluded table name",
                        ValidateTableName(o.ExcludeTables[badX]))
        ELSE IF o.Database # <<>> /\ ValidateDatabaseName(o.Database) # Nil
        THEN BuildError("invalid database name", ValidateDatabaseName(o.Database))
        ELSE [args |->
                <<Arg(L("-h")), Arg(F("host", cfg.Host)),
                  Arg(L("-p")), Arg(F("port", ToString(cfg.Port))),
                  Arg(L("-U")), Arg(F("user", cfg.Username)),
                  Arg(L("-F")), Arg(L("c")), Arg(L("-v")),
                  Arg(L("--no-owner")), Arg(L("--no-acl"))>>
                \o (IF o.Parallel > 1
                    THEN <<Arg(L("-j")), Arg(F("parallel", ToString(o.Parallel)))>>
                    ELSE <<>>)
                \o (IF o.ConsistentBackup
                    THEN <<Arg(L("--serializable-deferrable"))>> ELSE <<>>)
                \o Flagged("-t", "table", o.Tables)
                \o Flagged("-T", "exclude", o.ExcludeTables)
                \o (IF o.Database # <<>> THEN <<Arg(N("database", o.Database))>> ELSE <<>>),
              err |-> NilErr]

buildRestoreArgs(cfg, o) ==
    LET badT == FirstRejected(o.Tables, ValidateTableName)
    IN  IF o.Database # <<>> /\ ValidateDatabaseName(o.Database) # Nil
        THEN BuildError("invalid database name", ValidateDatabaseName(o.Database))
        ELSE IF badT # 0
        THEN BuildError("invalid table name", ValidateTableName(o.Tables[badT]))
        ELSE [args |->
                <<Arg(L("-h")), Arg(F("host", cfg.Host)),
                  Arg(L("-p")), Arg(F("port", ToString(cfg.Port))),
                  Arg(L("-U")), Arg(F("user", cfg.Username)),
                  Arg(L("-d")), Arg(N("database", o.Database)),
                  Arg(L("-v")), Arg(L("--no-owner")), Arg(L("--no-acl"))>>
                \o (IF o.Parallel > 1
                    THEN <<Arg(L("-j")), Arg(F("parallel", ToString(o.Parallel)))>>
                    ELSE <<>>)
                \o (IF o.DropExisting THEN <<Arg(L("--clean"))>> ELSE <<>>)
                \o Flagged("-t", "table", o.Tables)
                \o <<Arg(N("path", o.SourceBackup))>>,
              err |-> NilErr]

buildPsqlArgs(cfg, o) ==
    IF o.Database # <<>> /\ ValidateDatabaseName(o.Database) # Nil
    THEN BuildError("invalid database name", ValidateDatabaseName(o.Database))
    ELSE [args |->
            <<Arg(L("-h")), Arg(F("host", cfg.Host)),
              Arg(L("-p")), Arg(F("port", ToString(cfg.Port))),
              Arg(L("-U")), Arg(F("user", cfg.Username)),
              Arg(L("-d")), Arg(N("database", o.Database))>>,
          err |-> NilErr]

(***************************************************************************)
(* internal/database/mysql                                                 *)
(***************************************************************************)
MySQLBaseArgs_PasswordFlag(cfg) ==
    << <<L("--host="), F("host", cfg.Host)>>,
       <<L("--port="), F("port", ToString(cfg.Port))>>,
       <<L("--user="), F("user", cfg.Username)>>,
       <<L("--password="), F("password", cfg.Password)>> >>

MySQLBaseArgs(cfg) ==
    << <<L("--host="), F("host", cfg.Host)>>,
       <<L("--port="), F("port", ToString(cfg.Port))>>,
       <<L("--user="), F("user", cfg.Username)>> >>

\* one bare argument for every name of the list
NameArgs(kind, names) == [i \in 1..Len(names) |-> Arg(N(kind, names[i]))]

buildMySQLDumpArgs(cfg, o) ==
    LET badD == FirstRejected(o.Databases, ValidateDatabaseName)
        badT == FirstRejected(o.Tables, ValidateTableName)
        badX == FirstRejected(o.ExcludeTables, ValidateTableName)
        useDatabases == ~o.AllDatabases /\ Len(o.Databases) > 0
        useDatabase == ~o.AllDatabases /\ Len(o.Databases) = 0 /\ o.Database # <<>>
        useTables == Len(o.Tables) > 0 /\ o.Database # <<>>
    IN  IF useDatabases /\ badD # 0
        THEN BuildError("invalid database name", ValidateDatabaseName(o.Databases[badD]))
        ELSE IF useDatabase /\ ValidateDatabaseName(o.Database) # Nil
        THEN BuildError("invalid database name", ValidateDatabaseName(o.Database))
        ELSE IF useTables /\ badT # 0
        THEN BuildError("invalid table name", ValidateTableName(o.Tables[badT]))
        ELSE IF badX # 0
        THEN BuildError("invalid excluded table name",
                        ValidateTableName(o.ExcludeTables[badX]))
        ELSE [args |->
                MySQLBaseArgs(cfg)
                \o <<Arg(L("--single-transaction")), Arg(L("--routines")),
                     Arg(L("--triggers")), Arg(L("--events")),
                     Arg(L("--skip-lock-tables"))>>
                \o (IF o.AllDatabases THEN <<Arg(L("--all-databases"))>>
                    ELSE IF useDatabases
                    THEN <<Arg(L("--databases"))>> \o NameArgs("database", o.Databases)
                    ELSE IF useDatabase THEN <<Arg(N("database", o.Database))>>
                    ELSE <<>>)
                \o (IF useTables THEN NameArgs("table", o.Tables) ELSE <<>>)
                \o [i \in 1..Len(o.ExcludeTables) |->
                        <<L("--ignore-table="), N("database", o.Database),
                          L("."), N("exclude", o.ExcludeTables[i])>>],
              err |-> NilErr]

\* the argument list Restore and StreamRestore build in line
MySQLRestoreArgs(cfg, o) ==
    MySQLBaseArgs(cfg)
    \o (IF o.Database # <<>> THEN <<Arg(N("database", o.Database))>> ELSE <<>>)

(***************************************************************************)
(* internal/database/mongodb                                               *)
(***************************************************************************)
MongoAuthArgs(cfg) ==
    (IF cfg.Username # ""
     THEN <<Arg(L("--username")), Arg(F("user", cfg.Username))>> ELSE <<>>)
    \o (IF cfg.Password # ""
        THEN <<Arg(L("--password")), Arg(F("password", cfg.Password))>> ELSE <<>>)

buildMongoDumpArgs(cfg, o) ==
    LET badT == FirstRejected(o.Tables, ValidateTableName)
    IN  IF o.Database # <<>> /\ ValidateDatabaseName(o.Database) # Nil
        THEN BuildError("invalid database name", ValidateDatabaseName(o.Database))
        ELSE IF badT # 0
        THEN BuildError("invalid collection name", ValidateTableName(o.Tables[badT]))
        ELSE [args |->
                <<Arg(L("--host")), Arg(F("host", cfg.Host)),
                  Arg(L("--port")), Arg(F("port", ToString(cfg.Port))),
                  Arg(L("--out")), Arg(N("path", o.OutputPath)),
                  Arg(L("--gzip"))>>
                \o MongoAuthArgs(cfg)
                \o (IF o.Database # <<>>
                    THEN <<Arg(L("--db")), Arg(N("database", o.Database))>> ELSE <<>>)
                \o Flagged("--collection", "table", o.Tables)
                \o (IF o.ConsistentBackup THEN <<Arg(L("--oplog"))>> ELSE <<>>)
                \o (IF o.Parallel > 1
                    THEN <<Arg(L("--numParallelCollections")),
                           Arg(F("parallel", ToString(o.Parallel)))>>
                    ELSE <<>>),
              err |-> NilErr]

buildMongoRestoreArgs(cfg, o) ==
    IF o.Database # <<>> /\ ValidateDatabaseName(o.Database) # Nil
    THEN BuildError("invalid database name", ValidateDatabaseName(o.Database))
    ELSE [args |->
            <<Arg(L("--host")), Arg(F("host", cfg.Host)),
              Arg(L("--port")), Arg(F("port", ToString(cfg.Port))),
              Arg(L("--gzip"))>>
            \o MongoAuthArgs(cfg)
            \o (IF o.Database # <<>>
                THEN <<Arg(L("--db")), Arg(N("database", o.Database))>> ELSE <<>>)
            \o (IF o.DropExisting THEN <<Arg(L("--drop"))>> ELSE <<>>)
            \o (IF o.Parallel > 1
                THEN <<Arg(L("--numParallelCollections")),
                       Arg(F("parallel", ToString(o.Parallel)))>>
                ELSE <<>>)
            \o (IF o.PointInTime
                THEN <<Arg(L("--oplogReplay")), Arg(L("--oplogLimit")),
                       <<F("pointInTime", "unix"), L(":"), L("0")>> >>
                ELSE <<>>)
            \o <<Arg(N("path", o.SourceBackup))>>,
          err |-> NilErr]

(***************************************************************************)
(* Placeholders of the driver state, used by every specification.          *)
(***************************************************************************)
NoConfig == [nil |-> TRUE, Host |-> "", Port |-> 0, Username |-> "", Password |-> ""]
NoOpts ==
    [Database |-> <<>>, Databases |-> <<>>, AllDatabases |-> FALSE, Tables |-> <<>>,
     ExcludeTables |-> <<>>, ConsistentBackup |-> FALSE, Parallel |-> 0,
     OutputPath |-> <<>>, SourceBackup |-> <<>>, DropExisting |-> FALSE,
     PointInTime |-> FALSE, Table |-> <<>>]
\* the zero time.Time, which precedes every reading of the clock
ZeroTime == 0
\* the reading of time.Now() when Backup or Restore builds its result
BeginInstant == 1
MaxElapsed == 1

NoResult == [Status |-> "", Error |-> NilErr, StartTime |-> ZeroTime, EndTime |-> ZeroTime]
\* result := &BackupResult{StartTime: time.Now(), Status: ...InProgress}
InProgress ==
    [Status |-> "in_progress", Error |-> NilErr, StartTime |-> BeginInstant,
     EndTime |-> ZeroTime]
\* result.EndTime = time.Now(); result.Status = ...Success
Complete(res, elapsed) ==
    [res EXCEPT !.Status = "success", !.EndTime = res.StartTime + elapsed]
NoCmd == [name |-> "", argv |-> <<>>, env |-> {}]
NoQuery == [text |-> <<>>, params |-> <<>>]
NoCall == [none |-> TRUE]

DriverIdle ==
    /\ drv = "none"
    /\ config = NoConfig
    /\ op = ""
    /\ pc = "idle"
    /\ opts = NoOpts
    /\ result = NoResult
    /\ retErr = NilErr
    /\ cmd = NoCmd
    /\ proc = "none"
    /\ outFile = "untouched"
    /\ query = NoQuery
    /\ ctx = "live"
    /\ signals = <<>>

GuardIdle ==
    /\ callFn = ""
    /\ callArg = NoCall
    /\ callRet = [err |-> "pending"]

NoFlags ==
    [Type |-> "", Database |-> "", Databases |-> <<>>, AllDatabases |-> FALSE,
     Compression |-> "", CompressionLevel |-> 0, Encrypt |-> FALSE,
     EncryptionKey |-> "", DryRun |-> FALSE]
NoMetadata == [ID |-> "", BackupPath |-> "", Status |-> ""]

CommandIdle ==
    /\ runOpts = NoFlags
    /\ runPc = "idle"
    /\ runErr = NilErr
    /\ metadata = NoMetadata
    /\ createErr = NilErr
    /\ saveCalls = <<>>
    /\ catalog = {}
    /\ storage = {}

MintIdle ==
    /\ now = [sec |-> 0, nano |-> 0]
    /\ mintPc = <<>>
    /\ stamp = <<>>
    /\ minted = <<>>

RegistryIdle ==
    /\ driverRegistry = <<>>
    /\ driversMu = [writer |-> 0, readers |-> {}]
    /\ calls = <<>>
    /\ regPc = <<>>
    /\ lookup = <<>>
    /\ returned = <<>>
    /\ instances = <<>>

NoConn == [fn |-> "", pc |-> "idle", config |-> 0, handle |-> 0, err |-> NilErr]

ConnIdle ==
    /\ handles = <<>>
    /\ db = 0
    /\ dbConfig = 0
    /\ conn = NoConn

NonGuardIdle == DriverIdle /\ CommandIdle /\ MintIdle /\ RegistryIdle /\ ConnIdle
NonDriverIdle == GuardIdle /\ CommandIdle /\ MintIdle /\ RegistryIdle /\ ConnIdle
NonCommandIdle == GuardIdle /\ DriverIdle /\ MintIdle /\ RegistryIdle /\ ConnIdle
NonMintIdle == GuardIdle /\ DriverIdle /\ CommandIdle /\ RegistryIdle /\ ConnIdle
NonRegistryIdle == GuardIdle /\ DriverIdle /\ CommandIdle /\ MintIdle /\ ConnIdle
NonConnIdle == GuardIdle /\ DriverIdle /\ CommandIdle /\ MintIdle /\ RegistryIdle

(***************************************************************************)
(* SpecNames: ValidateDatabaseName and ValidateTableName applied to names  *)
(* of every shape around the two length limits.                            *)
(***************************************************************************)
MaxPrefix == 2
NameSlack == 2

NameAlphabet == {"a", "Z", "7", "_", "-", ".", "$", "\n"}

PadLens ==
    {0}
    \cup ((MaxDatabaseNameLen - NameSlack)..(MaxDatabaseNameLen + NameSlack))
    \cup ((MaxTableNameLen - NameSlack)..(MaxTableNameLen + NameSlack))

\* prefix, a run of one letter, and at most one trailing character
NameInputs ==
    {pre \o Repeat("a", k) \o suf :
        pre \in Strs(NameAlphabet, MaxPrefix), k \in PadLens, suf \in Strs(NameAlphabet, 1)}

InitNames ==
    /\ callFn = ""
    /\ callArg \in {[name |-> n] : n \in NameInputs}
    /\ callRet = [err |-> "pending"]
    /\ NonGuardIdle

CallValidateDatabaseName ==
    /\ callFn = ""
    /\ callFn' = "ValidateDatabaseName"
    /\ callRet' = [err |-> ValidateDatabaseName(callArg.name)]
    /\ UNCHANGED <<callArg, nonGuardVars>>

CallValidateTableName ==
    /\ callFn = ""
    /\ callFn' = "ValidateTableName"
    /\ callRet' = [err |-> ValidateTableName(callArg.name)]
    /\ UNCHANGED <<callArg, nonGuardVars>>

NextNames == CallValidateDatabaseName \/ CallValidateTableName

SpecNames == InitNames /\ [][NextNames]_vars

(***************************************************************************)
(* SpecID: ValidateBackupID applied to a canonical ID and to its edits.    *)
(***************************************************************************)
MaxIDAffix == 2

CanonicalID ==
    <<"b","a","c","k","u","p","-","2","0","2","5","-","0","1","-","0","1","-",
      "0","0","-","0","0","-","0","0","-","a","a","a","a","a","a","a","a">>

\* backup-2025-01-01-00-00-00-aaaaaaaa/../etc
TraversalID == CanonicalID \o <<"/", ".", ".", "/", "e", "t", "c">>

IDAlphabet == {"0", "9", "a", "f", "g", "A", "-", ".", "/", "\\", "\n"}

IDInputs ==
    {[CanonicalID EXCEPT ![i] = c] : i \in 1..Len(CanonicalID), c \in IDAlphabet}
    \cup {SubSeq(CanonicalID, 1, k) : k \in 0..Len(CanonicalID)}
    \cup {SubSeq(CanonicalID, k, Len(CanonicalID)) : k \in 1..Len(CanonicalID)}
    \cup {CanonicalID \o suf : suf \in Strs(IDAlphabet, MaxIDAffix)}
    \cup {pre \o CanonicalID : pre \in Strs(IDAlphabet, MaxIDAffix)}
    \cup {TraversalID}

InitID ==
    /\ callFn = ""
    /\ callArg \in {[id |-> i] : i \in IDInputs}
    /\ callRet = [err |-> "pending"]
    /\ NonGuardIdle

CallValidateBackupID ==
    /\ callFn = ""
    /\ callFn' = "ValidateBackupID"
    /\ callRet' = [err |-> ValidateBackupID(callArg.id)]
    /\ UNCHANGED <<callArg, nonGuardVars>>

NextID == CallValidateBackupID

SpecID == InitID /\ [][NextID]_vars

(***************************************************************************)
(* SpecPath: SanitizePath applied to every short path over '/', '.', 'a'   *)
(* under several base directories and working directories.                 *)
(***************************************************************************)
MaxPathLen == 5

PathAlphabet == {"/", ".", "a"}

BaseDirs ==
    { <<>>, <<"/">>, <<"/","a">>, <<"/","a","/">>, <<"/","a","/","a">>, <<"a">> }

WorkDirs ==
    { [ok |-> TRUE, dir |-> <<"/">>], [ok |-> TRUE, dir |-> <<"/","a">>],
      [ok |-> FALSE, dir |-> <<>>] }

InitPath ==
    /\ callFn = ""
    /\ callArg \in {[path |-> p, baseDir |-> b, wd |-> w] :
                        p \in Strs(PathAlphabet, MaxPathLen), b \in BaseDirs, w \in WorkDirs}
    /\ callRet = [path |-> <<>>, err |-> "pending"]
    /\ NonGuardIdle

CallSanitizePath ==
    /\ callFn = ""
    /\ callFn' = "SanitizePath"
    /\ callRet' = SanitizePath(callArg.path, callArg.baseDir, callArg.wd)
    /\ UNCHANGED <<callArg, nonGuardVars>>

NextPath == CallSanitizePath

SpecPath == InitPath /\ [][NextPath]_vars

(***************************************************************************)
(* The error helpers of pkg/errors, applied to error chains of bounded     *)
(* length.                                                                 *)
(***************************************************************************)
MaxChain == 3

\* one link of a chain: an error of another package, or a BackupError
ErrLinks == {PlainErr("e")[1]} \cup {New(t, "e")[1] : t \in ErrorTypes}
ErrChains == UNION {[1..n -> ErrLinks] : n \in 0..MaxChain}
WrapTypes == {"", "DATABASE", "STORAGE"}

InitErrors ==
    /\ callFn = ""
    /\ callArg \in {[err |-> e, errType |-> t, message |-> "wrapped"] :
                        e \in ErrChains, t \in WrapTypes}
    /\ callRet = [err |-> "pending"]
    /\ NonGuardIdle

CallIsRetryable ==
    /\ callFn = ""
    /\ callFn' = "IsRetryable"
    /\ callRet' = [retryable |-> IsRetryable(callArg.err)]
    /\ UNCHANGED <<callArg, nonGuardVars>>

CallWrap ==
    /\ callFn = ""
    /\ callFn' = "Wrap"
    /\ callRet' = [err |-> Wrap(callArg.err, callArg.errType, callArg.message)]
    /\ UNCHANGED <<callArg, nonGuardVars>>

NextErrors == CallIsRetryable \/ CallWrap

SpecErrors == InitErrors /\ [][NextErrors]_vars

(***************************************************************************)
(* Claims about the guard.                                                 *)
(***************************************************************************)

\* C3: ValidateDatabaseName(s) returns nil if and only if 1 <= len(s) <= 64,
\* s does not start with '-' or '.', and every character of s is in
\* [A-Za-z0-9_-].
C3_DatabaseNamePolicy ==
    callFn = "ValidateDatabaseName" =>
        LET s == callArg.name
        IN  (callRet.err = Nil) <=>
                /\ 1 <= Len(s) /\ Len(s) <= 64
                /\ s[1] \notin {"-", "."}
                /\ \A i \in 1..Len(s) : s[i] \in Lower \cup Upper \cup Digit \cup {"_", "-"}

\* A name of exactly 64 characters with a hyphen inside is accepted.
C3_Witness ==
    /\ callFn = "ValidateDatabaseName"
    /\ callRet.err = Nil
    /\ Len(callArg.name) = 64
    /\ \E i \in 1..Len(callArg.name) : callArg.name[i] = "-"

\* C6: ValidateTableName(s) returns nil if and only if 1 <= len(s) <= 128,
\* s does not start with '-' or '.', and every character of s is in
\* [A-Za-z0-9_.-].
C6_TableNamePolicy ==
    callFn = "ValidateTableName" =>
        LET s == callArg.name
        IN  (callRet.err = Nil) <=>
                /\ 1 <= Len(s) /\ Len(s) <= 128
                /\ s[1] \notin {"-", "."}
                /\ \A i \in 1..Len(s) :
                       s[i] \in Lower \cup Upper \cup Digit \cup {"_", ".", "-"}

\* A name of exactly 128 characters with a dot inside is accepted.
C6_Witness ==
    /\ callFn = "ValidateTableName"
    /\ callRet.err = Nil
    /\ Len(callArg.name) = 128
    /\ \E i \in 2..Len(callArg.name) : callArg.name[i] = "."

IDDashAt == {12, 15, 18, 21, 24, 27}
IDDigitAt == (8..26) \ IDDashAt
IDHexAt == 28..35

\* C4: ValidateBackupID(s) returns nil if and only if s matches
\* ^backup-\d{4}-\d{2}-\d{2}-\d{2}-\d{2}-\d{2}-[a-f0-9]{8}$; so no accepted ID
\* contains "..", "/" or "\", or starts with "." or "-", and the ID with the
\* traversal suffix "/../etc" is rejected.
C4_BackupIDPolicy ==
    callFn = "ValidateBackupID" =>
        LET s == callArg.id
            matches ==
                /\ Len(s) = 35
                /\ SubSeq(s, 1, 7) = <<"b","a","c","k","u","p","-">>
                /\ \A i \in IDDashAt : s[i] = "-"
                /\ \A i \in IDDigitAt : s[i] \in Digit
                /\ \A i \in IDHexAt : s[i] \in {"a","b","c","d","e","f"} \cup Digit
        IN  /\ (callRet.err = Nil) <=> matches
            /\ callRet.err = Nil =>
                   /\ ~Contains(s, <<".", ".">>)
                   /\ ~Contains(s, <<"/">>)
                   /\ ~Contains(s, <<"\\">>)
                   /\ s[1] \notin {".", "-"}
            /\ s = TraversalID => callRet.err # Nil

\* The ID with the traversal suffix has been checked (and rejected).
C4_Witness ==
    /\ callFn = "ValidateBackupID"
    /\ callArg.id = TraversalID
    /\ callRet.err # Nil

\* base is a prefix of p, element by element and as a string.
WithinBase(p, base) ==
    /\ Len(Elems(base)) <= Len(Elems(p))
    /\ SubSeq(Elems(p), 1, Len(Elems(base))) = Elems(base)
    /\ HasPrefix(p, base)

\* C5: if SanitizePath(p, base) with non-empty base returns a path without
\* error, the absolute cleaned form of that path has the absolute form of
\* base as a prefix; a p whose absolute cleaned form escapes base is rejected.
C5_SanitizedWithinBase ==
    (callFn = "SanitizePath" /\ callArg.baseDir # <<>>) =>
        LET absBase == Abs(callArg.baseDir, callArg.wd)
            absIn == Abs(callArg.path, callArg.wd)
            absOut == Abs(callRet.path, callArg.wd)
        IN  /\ callRet.err = Nil =>
                /\ absBase.err = Nil
                /\ absOut.err = Nil
                /\ WithinBase(absOut.path, absBase.path)
            /\ (absBase.err = Nil /\ absIn.err = Nil
                    /\ ~WithinBase(absIn.path, absBase.path)) => callRet.err # Nil

\* A relative path with ".." in it that resolves to a place inside a base
\* other than the root is accepted.
C5_Witness ==
    /\ callFn = "SanitizePath"
    /\ callArg.baseDir \notin {<<>>, <<"/">>}
    /\ Contains(callArg.path, DotDot)
    /\ callRet.err = Nil

\* C30: SanitizePath(p, base) with non-empty base returns no error for
\* every p whose absolute cleaned form is base or lies beneath base,
\* whatever its components are called (a name that begins with two dots
\* included).
C30_PathsWithinBaseAccepted ==
    (callFn = "SanitizePath" /\ callArg.baseDir # <<>>) =>
        LET absBase == Abs(callArg.baseDir, callArg.wd)
            absIn == Abs(callArg.path, callArg.wd)
        IN  (absBase.err = Nil /\ absIn.err = Nil
                /\ WithinBase(absIn.path, absBase.path)) => callRet.err = Nil

\* position i holds the first BackupError of the chain
FirstBackupAt(err, i) ==
    /\ i \in 1..Len(err)
    /\ err[i].backup
    /\ \A j \in 1..(i - 1) : ~err[j].backup

\* C24: IsRetryable(err) is true exactly when the first BackupError of
\* err's chain has type STORAGE or NETWORK: it is false for the other
\* types, for a chain without a BackupError, and for a retryable error
\* wrapped by a BackupError of another type.
C24_RetryableIffFirstStorageOrNetwork ==
    callFn = "IsRetryable" =>
        (callRet.retryable <=>
            \E i \in 1..Len(callArg.err) :
                /\ FirstBackupAt(callArg.err, i)
                /\ callArg.err[i].Type \in {"STORAGE", "NETWORK"})

C24_Witness ==
    /\ callFn = "IsRetryable"
    /\ ~callRet.retryable
    /\ Len(callArg.err) = 2
    /\ callArg.err[1].backup /\ callArg.err[1].Type = "VALIDATION"
    /\ callArg.err[2].backup /\ callArg.err[2].Type = "NETWORK"

\* C25: Wrap(err, t, m) is nil when err is nil; otherwise it is a
\* BackupError whose Unwrap() is err, whose Message is m and whose Type is
\* t when t is not empty and the Type of the first BackupError of err's
\* chain when t is empty.
C25_WrapShape ==
    callFn = "Wrap" =>
        IF callArg.err = NilErr THEN callRet.err = NilErr
        ELSE /\ callRet.err # NilErr
             /\ Head(callRet.err).backup
             /\ Tail(callRet.err) = callArg.err
             /\ Head(callRet.err).Message = callArg.message
             /\ callArg.errType # "" => Head(callRet.err).Type = callArg.errType
             /\ \A i \in 1..Len(callArg.err) :
                   (callArg.errType = "" /\ FirstBackupAt(callArg.err, i))
                       => Head(callRet.err).Type = callArg.err[i].Type

C25_Witness ==
    /\ callFn = "Wrap"
    /\ callArg.errType = ""
    /\ Len(callArg.err) = 2
    /\ ~callArg.err[1].backup
    /\ callArg.err[2].backup
    /\ Head(callRet.err).Type = "STORAGE"

(***************************************************************************)
(* The drivers.  One driver instance serves one caller's request (the      *)
(* options of Init); its methods run one at a time, each in the steps of   *)
(* its code.  What the operating system answers (file creation, process    *)
(* start, process exit) is nondeterministic.                               *)
(***************************************************************************)
Drivers == {"postgres", "mysql", "mongodb"}
Relational == {"postgres", "mysql"}

GoodDb == <<"d", "b">>
GoodTable == <<"s", ".", "t">>
BadName == <<"x", ";", "-", "-">>

Configs ==
    {[nil |-> FALSE, Host |-> "dbhost", Port |-> 5432, Username |-> u, Password |-> pw] :
        u \in {"", "admin"}, pw \in {"", "s3cret"}}

DatabaseChoices == {<<>>, GoodDb, BadName}
DatabasesChoices == {<<>>, <<GoodDb>>, <<GoodDb, BadName>>}
TablesChoices == {<<>>, <<GoodTable>>, <<GoodTable, BadName>>}
ExcludeChoices == {<<>>, <<GoodTable>>, <<BadName>>}
ParallelChoices == {0, 2}
DumpPath == <<"o", "u", "t">>
SourceChoices == {<<"b", ".", "s", "q", "l">>, <<"b", ".", "d", "m", "p">>}

BackupOptionSet ==
    {[NoOpts EXCEPT !.Database = d, !.Databases = ds, !.AllDatabases = all,
                    !.Tables = t, !.ExcludeTables = x, !.ConsistentBackup = c,
                    !.Parallel = par, !.OutputPath = DumpPath] :
        d \in DatabaseChoices, ds \in DatabasesChoices, all \in BOOLEAN,
        t \in TablesChoices, x \in ExcludeChoices, c \in BOOLEAN, par \in ParallelChoices}

RestoreOptionSet ==
    {[NoOpts EXCEPT !.Database = d, !.Tables = t, !.SourceBackup = src,
                    !.Parallel = par, !.DropExisting = drop, !.PointInTime = pit] :
        d \in DatabaseChoices, t \in TablesChoices, src \in SourceChoices,
        par \in ParallelChoices, drop \in BOOLEAN, pit \in BOOLEAN}

\* strings.HasSuffix
HasSuffix(s, suffix) ==
    /\ Len(s) >= Len(suffix)
    /\ SubSeq(s, Len(s) - Len(suffix) + 1, Len(s)) = suffix

SqlSuffix == <<".", "s", "q", "l">>

DumpTool == [postgres |-> "pg_dump", mysql |-> "mysqldump", mongodb |-> "mongodump"]
PasswordVar == [postgres |-> "PGPASSWORD", mysql |-> "MYSQL_PWD"]

\* cmd.Env = append(os.Environ(), "<VAR>=<password>"); the document driver
\* leaves cmd.Env alone.
CmdEnv(d, cfg) ==
    IF d \in Relational THEN {<<PasswordVar[d], cfg.Password>>} ELSE {}

BuildDumpArgs(d, cfg, o) ==
    IF d = "postgres" THEN buildPgDumpArgs(cfg, o)
    ELSE IF d = "mysql" THEN buildMySQLDumpArgs(cfg, o)
    ELSE buildMongoDumpArgs(cfg, o)

\* cmdName of Restore: psql for a ".sql" source, pg_restore otherwise
RestoreTool(d, o) ==
    IF d = "postgres"
    THEN (IF HasSuffix(o.SourceBackup, SqlSuffix) THEN "psql" ELSE "pg_restore")
    ELSE IF d = "mysql" THEN "mysql"
    ELSE "mongorestore"

\* The argument list of Restore; the mysql driver validates opts.Database
\* in Restore itself and wraps nothing around the guard's error.
BuildRestoreArgs(d, cfg, o) ==
    IF d = "postgres"
    THEN (IF RestoreTool(d, o) = "psql" THEN buildPsqlArgs(cfg, o)
          ELSE buildRestoreArgs(cfg, o))
    ELSE IF d = "mysql"
    THEN (IF o.Database # <<>> /\ ValidateDatabaseName(o.Database) # Nil
          THEN [args |-> <<>>, err |-> PlainErr(ValidateDatabaseName(o.Database))]
          ELSE [args |-> MySQLRestoreArgs(cfg, o), err |-> NilErr])
    ELSE buildMongoRestoreArgs(cfg, o)

\* The restore paths of the relational drivers check opts.Database before
\* they read d.config; every other path reads d.config first.
DatabaseCheckedFirst(d, o) ==
    /\ d \in Relational
    /\ o.Database # <<>>
    /\ ValidateDatabaseName(o.Database) # Nil

Range(seq) == {seq[i] : i \in 1..Len(seq)}

\* cmd.Start on a context that is already done returns ctx.Err() and starts
\* nothing.
StartOutcomes == IF ctx = "cancelled" THEN {FALSE} ELSE BOOLEAN
StartErr ==
    IF ctx = "cancelled" THEN PlainErr("context canceled")
    ELSE PlainErr("exec: executable file not found")

\* cmd.Wait on a process the runtime killed returns its exit status.
WaitOutcomes == IF "SIGKILL" \in Range(signals) THEN {FALSE} ELSE BOOLEAN
WaitErr ==
    IF "SIGKILL" \in Range(signals) THEN PlainErr("signal: killed")
    ELSE PlainErr("exit status 1")

FailResult_StatusKept(res, err) == [res EXCEPT !.Error = err]

\* result.Status = ...Failed; result.Error = err
FailResult(res, err) == [res EXCEPT !.Status = "failed", !.Error = err]

\* The method starts: what the previous call left to observe is forgotten.
Begin(name) ==
    /\ pc \in {"idle", "returned"}
    /\ op' = name
    /\ cmd' = NoCmd
    /\ proc' = "none"
    /\ outFile' = "untouched"
    /\ ctx' = "live"
    /\ signals' = <<>>
    /\ UNCHANGED <<drv, config, opts, nonDriverVars>>

\* return result, err on a failure path
ReturnFailed(err, ret) ==
    /\ result' = FailResult(result, err)
    /\ retErr' = ret
    /\ pc' = "returned"

\* d.config or d.db is nil and is dereferenced
Panic ==
    /\ pc' = "panic"
    /\ UNCHANGED <<drv, config, op, opts, result, retErr, cmd, proc, outFile, query, ctx, signals, nonDriverVars>>

\* sql.Open / mongo.Connect and the ping; d.config is kept only on success
Connect ==
    /\ pc \in {"idle", "returned"}
    /\ \E cfg \in Configs, ok \in BOOLEAN :
          IF ok
          THEN config' = cfg /\ retErr' = NilErr
          ELSE /\ config' = config
               /\ retErr' = ErrDatabaseConnection(PlainErr("connection refused"))
    /\ op' = "Connect"
    /\ pc' = "returned"
    /\ result' = NoResult
    /\ cmd' = NoCmd
    /\ proc' = "none"
    /\ outFile' = "untouched"
    /\ query' = NoQuery
    /\ ctx' = "live"
    /\ signals' = <<>>
    /\ UNCHANGED <<drv, opts, nonDriverVars>>

Disconnect ==
    /\ Begin("Disconnect")
    /\ result' = NoResult
    /\ retErr' = NilErr
    /\ query' = NoQuery
    /\ pc' = "returned"

IsBackupRequest(o) == o.OutputPath # <<>>
IsRestoreRequest(o) == o.SourceBackup # <<>>

(*************************** Backup ***************************************)
BackupBegin ==
    /\ IsBackupRequest(opts)
    /\ Begin("Backup")
    /\ result' = InProgress
    /\ retErr' = NilErr
    /\ query' = NoQuery
    /\ pc' = "build"

BackupBuildArgs ==
    /\ op = "Backup" /\ pc = "build"
    /\ IF config.nil THEN Panic
       ELSE LET b == BuildDumpArgs(drv, config, opts)
            IN  IF b.err # NilErr
                THEN /\ ReturnFailed(b.err, ErrDatabaseBackup(b.err))
                     /\ UNCHANGED <<drv, config, op, opts, cmd, proc, outFile, query, ctx, signals, nonDriverVars>>
                ELSE /\ cmd' = [name |-> DumpTool[drv], argv |-> b.args,
                                env |-> CmdEnv(drv, config)]
                     /\ pc' = IF drv = "mongodb" THEN "pipe" ELSE "create"
                     /\ UNCHANGED <<drv, config, op, opts, result, retErr, proc, outFile,
                                    query, ctx, signals, nonDriverVars>>

\* os.Create(opts.OutputPath): creates the file or truncates it
BackupCreateFile ==
    /\ op = "Backup" /\ pc = "create"
    /\ \E ok \in BOOLEAN :
          IF ok
          THEN /\ outFile' = "created"
               /\ pc' = "pipe"
               /\ UNCHANGED <<result, retErr>>
          ELSE /\ ReturnFailed(PlainErr("open: permission denied"),
                      WithMetadata(ErrDatabaseBackup(PlainErr("open: permission denied")),
                                   "output_path", "opts.OutputPath"))
               /\ UNCHANGED outFile
    /\ UNCHANGED <<drv, config, op, opts, cmd, proc, query, ctx, signals, nonDriverVars>>

BackupStderrPipe ==
    /\ op = "Backup" /\ pc = "pipe"
    /\ \E ok \in BOOLEAN :
          IF ok
          THEN pc' = "start" /\ UNCHANGED <<result, retErr>>
          ELSE ReturnFailed(PlainErr("pipe: too many open files"),
                            ErrDatabaseBackup(PlainErr("pipe: too many open files")))
    /\ UNCHANGED <<drv, config, op, opts, cmd, proc, outFile, query, ctx, signals, nonDriverVars>>

BackupStart ==
    /\ op = "Backup" /\ pc = "start"
    /\ \E ok \in StartOutcomes :
          IF ok
          THEN /\ proc' = "running"
               /\ pc' = "wait"
               /\ UNCHANGED <<result, retErr>>
          ELSE /\ ReturnFailed(StartErr,
                      WithMetadata(ErrDatabaseBackup(StartErr),
                                   "command", cmd.name))
               /\ UNCHANGED proc
    /\ UNCHANGED <<drv, config, op, opts, cmd, outFile, query, ctx, signals, nonDriverVars>>

\* io.ReadAll(stderrPipe); cmd.Wait()
BackupWait ==
    /\ op = "Backup" /\ pc = "wait"
    /\ proc' = "exited"
    /\ \E ok \in WaitOutcomes :
          IF ok
          THEN pc' = "stat" /\ UNCHANGED <<result, retErr>>
          ELSE ReturnFailed(WaitErr,
                   WithMetadata(ErrDatabaseBackup(WaitErr),
                                "stderr", "stderrOutput"))
    /\ UNCHANGED <<drv, config, op, opts, cmd, outFile, query, ctx, signals, nonDriverVars>>

\* outputFile.Stat() (relational) or dirSize(opts.OutputPath) (document):
\* the error is returned as it is
BackupStat ==
    /\ op = "Backup" /\ pc = "stat"
    /\ \E ok \in BOOLEAN :
          IF ok
          THEN pc' = "complete" /\ UNCHANGED <<result, retErr>>
          ELSE ReturnFailed(PlainErr("stat failed"), PlainErr("stat failed"))
    /\ UNCHANGED <<drv, config, op, opts, cmd, proc, outFile, query, ctx, signals, nonDriverVars>>

\* the statement of getTableInfo(ctx, dbName)
getTableInfo(d, dbName) ==
    IF d = "postgres"
    THEN [text |-> <<L("SELECT tablename, ... FROM pg_tables WHERE schemaname = 'public'")>>,
          params |-> <<>>]
    ELSE [text |-> <<L("SELECT table_name, ... FROM information_schema.TABLES WHERE table_schema = ?")>>,
          params |-> <<dbName>>]

\* d.GetVersion, d.getTableInfo (relational drivers), then the success result
BackupComplete ==
    /\ op = "Backup" /\ pc = "complete"
    /\ query' = IF drv \in Relational THEN getTableInfo(drv, opts.Database) ELSE NoQuery
    /\ \E elapsed \in 0..MaxElapsed : result' = Complete(result, elapsed)
    /\ retErr' = NilErr
    /\ pc' = "returned"
    /\ UNCHANGED <<drv, config, op, opts, cmd, proc, outFile, ctx, signals, nonDriverVars>>


(*************************** StreamBackup, StreamRestore ******************)
NotImplemented(what) ==
    New("DATABASE", "MongoDB streaming " \o what \o " not implemented")

StreamBackupBegin_MongoDumps ==
    /\ IsBackupRequest(opts)
    /\ Begin("StreamBackup")
    /\ result' = NoResult
    /\ query' = NoQuery
    /\ retErr' = NilErr /\ pc' = "build"

StreamBackupBegin ==
    /\ IsBackupRequest(opts)
    /\ Begin("StreamBackup")
    /\ result' = NoResult
    /\ query' = NoQuery
    /\ IF drv = "mongodb"
       THEN retErr' = NotImplemented("backup") /\ pc' = "returned"
       ELSE retErr' = NilErr /\ pc' = "build"

StreamRestoreBegin ==
    /\ IsRestoreRequest(opts)
    /\ Begin("StreamRestore")
    /\ result' = NoResult
    /\ query' = NoQuery
    /\ IF drv = "mongodb"
       THEN retErr' = NotImplemented("restore") /\ pc' = "returned"
       ELSE retErr' = NilErr /\ pc' = "build"

\* postgres wraps the builder's error, mysql returns it as it is
StreamBackupBuildArgs ==
    /\ op = "StreamBackup" /\ pc = "build"
    /\ IF config.nil THEN Panic
       ELSE LET b == BuildDumpArgs(drv, config, opts)
            IN  /\ IF b.err # NilErr
                   THEN /\ retErr' = IF drv = "postgres" THEN ErrDatabaseBackup(b.err)
                                     ELSE b.err
                        /\ pc' = "returned"
                        /\ UNCHANGED cmd
                   ELSE /\ cmd' = [name |-> DumpTool[drv], argv |-> b.args,
                                   env |-> CmdEnv(drv, config)]
                        /\ pc' = "run"
                        /\ UNCHANGED retErr
                /\ UNCHANGED <<drv, config, op, opts, result, proc, outFile, query, ctx, signals, nonDriverVars>>

\* postgres: buildPsqlArgs; mysql: the arguments are built in line, unchecked
StreamRestoreBuildArgs ==
    /\ op = "StreamRestore" /\ pc = "build"
    /\ IF drv = "postgres" /\ DatabaseCheckedFirst(drv, opts)
       THEN /\ retErr' = ErrDatabaseRestore(buildPsqlArgs(config, opts).err)
            /\ pc' = "returned"
            /\ UNCHANGED <<drv, config, op, opts, result, cmd, proc, outFile, query, ctx, signals, nonDriverVars>>
       ELSE IF config.nil THEN Panic
       ELSE /\ cmd' = [name |-> IF drv = "postgres" THEN "psql" ELSE "mysql",
                       argv |-> IF drv = "postgres" THEN buildPsqlArgs(config, opts).args
                                ELSE MySQLRestoreArgs(config, opts),
                       env |-> CmdEnv(drv, config)]
            /\ pc' = "run"
            /\ UNCHANGED <<drv, config, op, opts, result, retErr, proc, outFile, query, ctx, signals, nonDriverVars>>

\* cmd.Run(): Start ...
StreamStart ==
    /\ op \in {"StreamBackup", "StreamRestore"} /\ pc = "run"
    /\ \E ok \in StartOutcomes :
          IF ok
          THEN proc' = "running" /\ pc' = "wait" /\ UNCHANGED retErr
          ELSE /\ retErr' = StartErr
               /\ pc' = "returned"
               /\ UNCHANGED proc
    /\ UNCHANGED <<drv, config, op, opts, result, cmd, outFile, query, ctx, signals, nonDriverVars>>

\* ... and Wait
StreamWait ==
    /\ op \in {"StreamBackup", "StreamRestore"} /\ pc = "wait"
    /\ proc' = "exited"
    /\ \E ok \in WaitOutcomes :
          retErr' = IF ok THEN NilErr ELSE WaitErr
    /\ pc' = "returned"
    /\ UNCHANGED <<drv, config, op, opts, result, cmd, outFile, query, ctx, signals, nonDriverVars>>

(*************************** Restore **************************************)
RestoreBegin ==
    /\ IsRestoreRequest(opts)
    /\ Begin("Restore")
    /\ result' = InProgress
    /\ retErr' = NilErr
    /\ query' = NoQuery
    /\ pc' = "stat"

\* os.Stat(opts.SourceBackup); only "does not exist" stops the restore
RestoreStat ==
    /\ op = "Restore" /\ pc = "stat"
    /\ \E exists \in BOOLEAN :
          IF exists
          THEN pc' = "build" /\ UNCHANGED <<result, retErr>>
          ELSE ReturnFailed(PlainErr("stat: no such file or directory"),
                   WithMetadata(ErrDatabaseRestore(PlainErr("stat: no such file or directory")),
                                IF drv = "mongodb" THEN "backup_path" ELSE "backup_file",
                                "opts.SourceBackup"))
    /\ UNCHANGED <<drv, config, op, opts, cmd, proc, outFile, query, ctx, signals, nonDriverVars>>

RestoreBuildArgs ==
    /\ op = "Restore" /\ pc = "build"
    /\ IF config.nil /\ ~DatabaseCheckedFirst(drv, opts) THEN Panic
       ELSE LET b == BuildRestoreArgs(drv, config, opts)
            IN  IF b.err # NilErr
                THEN /\ ReturnFailed(b.err, ErrDatabaseRestore(b.err))
                     /\ UNCHANGED <<drv, config, op, opts, cmd, proc, outFile, query, ctx, signals, nonDriverVars>>
                ELSE /\ cmd' = [name |-> RestoreTool(drv, opts), argv |-> b.args,
                                env |-> CmdEnv(drv, config)]
                     /\ pc' = IF RestoreTool(drv, opts) \in {"psql", "mysql"}
                              THEN "open" ELSE "start"
                     /\ UNCHANGED <<drv, config, op, opts, result, retErr, proc, outFile,
                                    query, ctx, signals, nonDriverVars>>

\* os.Open(opts.SourceBackup) for the tools that read the dump on stdin
RestoreOpenFile ==
    /\ op = "Restore" /\ pc = "open"
    /\ \E ok \in BOOLEAN :
          IF ok
          THEN pc' = "start" /\ UNCHANGED <<result, retErr>>
          ELSE ReturnFailed(PlainErr("open: permission denied"),
                            ErrDatabaseRestore(PlainErr("open: permission denied")))
    /\ UNCHANGED <<drv, config, op, opts, cmd, proc, outFile, query, ctx, signals, nonDriverVars>>

RestoreStart ==
    /\ op = "Restore" /\ pc = "start"
    /\ \E ok \in StartOutcomes :
          IF ok
          THEN /\ proc' = "running"
               /\ pc' = "wait"
               /\ UNCHANGED <<result, retErr>>
          ELSE /\ ReturnFailed(StartErr,
                               ErrDatabaseRestore(StartErr))
               /\ UNCHANGED proc
    /\ UNCHANGED <<drv, config, op, opts, cmd, outFile, query, ctx, signals, nonDriverVars>>

RestoreWait ==
    /\ op = "Restore" /\ pc = "wait"
    /\ proc' = "exited"
    /\ \E ok \in WaitOutcomes :
          IF ok
          THEN /\ \E elapsed \in 0..MaxElapsed : result' = Complete(result, elapsed)
               /\ retErr' = NilErr
               /\ pc' = "returned"
          ELSE ReturnFailed(WaitErr,
                   WithMetadata(ErrDatabaseRestore(WaitErr),
                                "stderr", "stderrOutput"))
    /\ UNCHANGED <<drv, config, op, opts, cmd, outFile, query, ctx, signals, nonDriverVars>>

(*************************** metadata *************************************)
GetTablesQuery(d, database) ==
    IF d = "postgres"
    THEN [text |-> <<L("SELECT tablename FROM pg_tables WHERE schemaname = 'public'")>>,
          params |-> <<>>]
    ELSE IF d = "mysql"
    THEN [text |-> <<L("SHOW TABLES FROM "), N("database", database)>>, params |-> <<>>]
    ELSE [text |-> <<L("listCollections")>>, params |-> <<database>>]

GetTableSizeQuery(d, database, table) ==
    IF d = "postgres"
    THEN [text |-> <<L("SELECT pg_total_relation_size($1)")>>, params |-> <<table>>]
    ELSE IF d = "mysql"
    THEN [text |-> <<L("SELECT data_length + index_length FROM information_schema.TABLES WHERE table_schema = ? AND table_name = ?")>>,
          params |-> <<database, table>>]
    ELSE [text |-> <<L("collStats")>>, params |-> <<database, table>>]

GetBackupSizeQuery(d, database) ==
    IF d = "postgres"
    THEN [text |-> <<L("SELECT pg_database_size($1)")>>, params |-> <<database>>]
    ELSE IF d = "mysql"
    THEN [text |-> <<L("SELECT SUM(data_length + index_length) FROM information_schema.TABLES WHERE table_schema = ?")>>,
          params |-> <<database>>]
    ELSE [text |-> <<L("dbStats")>>, params |-> <<database>>]

\* One query on d.db (d.client); a driver that never connected panics.
RunQuery(q) ==
    /\ result' = NoResult
    /\ IF config.nil
       THEN query' = NoQuery /\ retErr' = NilErr /\ pc' = "panic"
       ELSE /\ query' = q
            /\ \E ok \in BOOLEAN : retErr' = IF ok THEN NilErr ELSE PlainErr("query failed")
            /\ pc' = "returned"

GetTables ==
    /\ Begin("GetTables")
    /\ \E database \in DatabaseChoices : RunQuery(GetTablesQuery(drv, database))

GetTableSize ==
    /\ Begin("GetTableSize")
    /\ \E database \in DatabaseChoices, table \in {GoodTable, BadName} :
          RunQuery(GetTableSizeQuery(drv, database, table))

GetBackupSize ==
    /\ IsBackupRequest(opts)
    /\ Begin("GetBackupSize")
    /\ IF opts.Database # <<>>
       THEN RunQuery(GetBackupSizeQuery(drv, opts.Database))
       ELSE /\ result' = NoResult
            /\ query' = NoQuery
            /\ retErr' = NilErr
            /\ pc' = "returned"

(*************************** cancellation *********************************)
\* The caller cancels the context of the call in progress.  Every command is
\* made by exec.CommandContext and sets neither cmd.Cancel nor cmd.WaitDelay,
\* so the runtime calls os.Process.Kill on a running subprocess; the kill
\* finds the process alive or already done.
Cancel ==
    /\ pc \notin {"idle", "returned", "panic"}
    /\ ctx = "live"
    /\ ctx' = "cancelled"
    /\ IF proc = "running"
       THEN \E alive \in BOOLEAN :
               signals' = IF alive THEN Append(signals, "SIGKILL") ELSE signals
       ELSE UNCHANGED signals
    /\ UNCHANGED <<drv, config, op, pc, opts, result, retErr, cmd, proc, outFile, query,
                   nonDriverVars>>

(*************************** the specification ****************************)
Init ==
    /\ drv \in Drivers
    /\ opts \in BackupOptionSet \cup RestoreOptionSet
    /\ config = NoConfig
    /\ op = ""
    /\ pc = "idle"
    /\ result = NoResult
    /\ retErr = NilErr
    /\ cmd = NoCmd
    /\ proc = "none"
    /\ outFile = "untouched"
    /\ query = NoQuery
    /\ ctx = "live"
    /\ signals = <<>>
    /\ NonDriverIdle

Next ==
    \/ Connect
    \/ Disconnect
    \/ BackupBegin
    \/ BackupBuildArgs
    \/ BackupCreateFile
    \/ BackupStderrPipe
    \/ BackupStart
    \/ BackupWait
    \/ BackupStat
    \/ BackupComplete
    \/ StreamBackupBegin
    \/ StreamBackupBuildArgs
    \/ StreamRestoreBegin
    \/ StreamRestoreBuildArgs
    \/ StreamStart
    \/ StreamWait
    \/ RestoreBegin
    \/ RestoreStat
    \/ RestoreBuildArgs
    \/ RestoreOpenFile
    \/ RestoreStart
    \/ RestoreWait
    \/ GetTables
    \/ GetTableSize
    \/ GetBackupSize
    \/ Cancel

Spec == Init /\ [][Next]_vars

(***************************************************************************)
(* Properties of the drivers                                               *)
(***************************************************************************)
\* the parts of every argument of an argument list
ArgvParts(argv) ==
    UNION {{argv[i][j] : j \in 1..Len(argv[i])} : i \in 1..Len(argv)}

\* the guard's verdict on the name a part carries
GuardAccepts(part) ==
    IF part.src = "database" THEN ValidateDatabaseName(part.val) = Nil
    ELSE ValidateTableName(part.val) = Nil

IsName(part) == part.src \in NameKinds /\ part.val # <<>>

\* C1: on every path that builds a subprocess argument list (Backup,
\* StreamBackup, Restore, StreamRestore of every driver), each caller-supplied
\* database, table or excluded-table name that appears in argv is one the
\* guard (ValidateDatabaseName / ValidateTableName) accepts.
C1_ArgvNamesValidated ==
    cmd # NoCmd =>
        \A part \in ArgvParts(cmd.argv) : IsName(part) => GuardAccepts(part)

\* a database or table name of the options that the guard rejects
RejectedNameSupplied(o) ==
    \/ o.Database # <<>> /\ ValidateDatabaseName(o.Database) # Nil
    \/ \E i \in 1..Len(o.Tables) : ValidateTableName(o.Tables[i]) # Nil

\* C2: when Backup is called with a database or table name that the guard
\* rejects, no dump subprocess is started and the file at OutputPath is
\* neither created nor truncated, in every driver.
C2_RejectedNameNoSideEffect ==
    (op = "Backup" /\ RejectedNameSupplied(opts)) =>
        (proc = "none" /\ outFile = "untouched")

\* C7: in the relational drivers, on every dump and restore path, the
\* configured password is no part of the subprocess argument list; it is in
\* the subprocess environment under PGPASSWORD / MYSQL_PWD.
C7_RelationalPasswordInEnvOnly ==
    (drv \in Relational /\ cmd # NoCmd) =>
        /\ \A part \in ArgvParts(cmd.argv) :
              /\ part.src # "password"
              /\ config.Password # "" => part.lit # config.Password
        /\ <<PasswordVar[drv], config.Password>> \in cmd.env

C7_Witness ==
    /\ drv \in Relational
    /\ op \in {"Backup", "StreamBackup", "Restore", "StreamRestore"}
    /\ proc = "running"
    /\ config.Password = "s3cret"
    /\ <<PasswordVar[drv], "s3cret">> \in cmd.env

\* C8: for every tool any driver spawns (mongodump and mongorestore
\* included) and every configuration with a non-empty password, the
\* password is not an element of the subprocess argument list.
C8_NoPasswordInAnyArgv ==
    (cmd # NoCmd /\ config.Password # "") =>
        \A part \in ArgvParts(cmd.argv) : part.lit # config.Password

\* C9: in every metadata operation that takes a database or table name
\* (GetTables, GetTableSize, GetBackupSize, getTableInfo), a name that is
\* part of the SQL text is one the guard accepts; every other name is a
\* bound parameter.
C9_QueryTextNamesValidated ==
    query # NoQuery =>
        \A i \in 1..Len(query.text) :
            IsName(query.text[i]) => GuardAccepts(query.text[i])

Terminal == {"success", "failed"}

\* C10: in every execution of Backup the status is in_progress until the
\* return and changes once, to success or failed; at return err is nil
\* exactly when the status is success, and a non-nil err comes with status
\* failed and result.Error set.
C10_BackupStatusAgreesWithErr ==
    /\ [](op = "Backup" =>
            /\ pc \in {"build", "create", "pipe", "start", "wait", "stat", "complete", "panic"}
                  => result.Status = "in_progress"
            /\ pc = "returned" =>
                  /\ (retErr = NilErr) <=> (result.Status = "success")
                  /\ retErr # NilErr =>
                        (result.Status = "failed" /\ result.Error # NilErr))
    /\ [][(op = "Backup" /\ pc \notin {"idle", "returned"}
                /\ result'.Status # result.Status) =>
             /\ result.Status = "in_progress"
             /\ result'.Status \in Terminal
             /\ pc' = "returned"]_vars

C10_Witness ==
    /\ op = "Backup"
    /\ pc = "returned"
    /\ proc = "exited"
    /\ retErr # NilErr
    /\ result.Status = "failed"
    /\ result.Error # NilErr

\* errors.As(err, &backupErr) and backupErr.Type: the kind of an error
ErrorKind(err) ==
    IF FirstBackupError(err) = <<>> THEN "" ELSE FirstBackupError(err)[1].Type

\* C11: when the context of Backup is cancelled while the dump subprocess
\* runs and the subprocess is killed for it, Backup returns status failed
\* and an error of kind Cancelled; a killed dump never yields success.
C11_KilledDumpReturnsCancelled ==
    (op = "Backup" /\ pc = "returned" /\ "SIGKILL" \in Range(signals)) =>
        /\ result.Status = "failed"
        /\ ErrorKind(retErr) = "CANCELLED"

\* C12: on cancellation the subprocess is first sent SIGTERM, and SIGKILL
\* only after it; the driver sets the signal sequence itself.
C12_TermBeforeKill ==
    signals # <<>> =>
        /\ signals[1] = "SIGTERM"
        /\ \A i \in 1..Len(signals) : signals[i] = "SIGKILL" => i > 1

\* C20: every result that Backup or Restore returns, success or failed, has
\* EndTime >= StartTime.
C20_EndNotBeforeStart ==
    (op \in {"Backup", "Restore"} /\ pc = "returned")
        => result.EndTime >= result.StartTime

\* the metadata of the error a caller receives
MetadataKeys(err) ==
    IF err = NilErr \/ ~err[1].backup THEN {} ELSE {kv[1] : kv \in err[1].Metadata}

\* the subprocess ran and exited with a non-zero status
ExitedNonZero(err) ==
    /\ proc = "exited"
    /\ err # NilErr
    /\ err[Len(err)].Message = "exit status 1"

\* C21: when the dump subprocess of Backup or StreamBackup of a relational
\* driver exits non-zero, the returned error carries the captured stderr in
\* its metadata.
C21_DumpErrorCarriesStderr ==
    (drv \in Relational /\ op \in {"Backup", "StreamBackup"} /\ pc = "returned"
        /\ ExitedNonZero(retErr))
        => "stderr" \in MetadataKeys(retErr)

\* C22: StreamBackup and StreamRestore of the MongoDB driver always return
\* the non-nil "streaming not implemented" error, connected or not and for
\* every options value, and they start no subprocess and touch no file,
\* writer or reader.
C22_MongoStreamUnsupported ==
    (drv = "mongodb" /\ op \in {"StreamBackup", "StreamRestore"}) =>
        /\ pc = "returned"
        /\ retErr # NilErr
        /\ retErr = NotImplemented(IF op = "StreamBackup" THEN "backup" ELSE "restore")
        /\ cmd = NoCmd
        /\ proc = "none"
        /\ outFile = "untouched"
        /\ signals = <<>>

C22_Witness ==
    /\ drv = "mongodb"
    /\ op = "StreamBackup"
    /\ pc = "returned"
    /\ ~config.nil
    /\ opts.Database = BadName

\* the cause at the bottom of the chain is an error of the guard
GuardRejected(err) ==
    /\ err # NilErr
    /\ err[Len(err)].Message \in
          {ValidateDatabaseName(BadName), ValidateTableName(BadName)} \ {Nil}

\* C26: when Backup or Restore of a driver rejects the request because an
\* identifier fails the guard, the error returned to the caller has the
\* validation error kind.
C26_GuardRejectionIsValidationKind ==
    (op \in {"Backup", "Restore"} /\ pc = "returned" /\ GuardRejected(retErr))
        => ErrorKind(retErr) = "VALIDATION"

\* pg_dump is told to write the custom archive format
WritesCustomFormat(argv) ==
    \E i \in 1..(Len(argv) - 1) : argv[i] = Arg(L("-F")) /\ argv[i + 1] = Arg(L("c"))

\* C27: the postgres driver writes every artifact in pg_dump's custom
\* format, and it feeds an artifact only to pg_restore, never to psql, in
\* Restore (whatever the file is called) and in StreamRestore.
C27_PostgresRestoreToolMatchesDump ==
    /\ cmd.name = "pg_dump" => WritesCustomFormat(cmd.argv)
    /\ (drv = "postgres" /\ op \in {"Restore", "StreamRestore"} /\ cmd # NoCmd)
          => cmd.name = "pg_restore"

(***************************************************************************)
(* The backup command (runBackup).  One run of the command line: the       *)
(* flags are the input; engine.CreateBackup and repo.Save are calls into   *)
(* other packages whose outcome is nondeterministic.                       *)
(***************************************************************************)
TypeChoices == {"mysql", "postgres", "mongodb", "sqlite", "MySQL", "oracle"}
ValidTypes == {"mysql", "postgres", "mongodb", "sqlite"}
ValidCompression == {"gzip", "zstd", "lz4", "none"}

FlagSet ==
    {[Type |-> t, Database |-> d, Databases |-> ds, AllDatabases |-> all,
      Compression |-> c, CompressionLevel |-> lvl, Encrypt |-> e,
      EncryptionKey |-> k, DryRun |-> dry] :
        t \in TypeChoices, d \in {"", "shop"}, ds \in {<<>>, <<"shop">>},
        all \in BOOLEAN, c \in {"", "gzip", "rar"}, lvl \in {-1, 0, 5, 10},
        e \in BOOLEAN, k \in {"", "key"}, dry \in BOOLEAN}

validateBackupOptions(o) ==
    IF o.Type \notin ValidTypes THEN PlainErr("invalid database type")
    ELSE IF o.Type = "sqlite"
    THEN (IF o.Database = "" THEN PlainErr("database file path is required for SQLite")
          ELSE NilErr)
    ELSE IF ~o.AllDatabases /\ o.Database = "" /\ Len(o.Databases) = 0
    THEN PlainErr("database name is required (or use --all-databases)")
    ELSE IF o.Encrypt /\ o.EncryptionKey = ""
    THEN PlainErr("encryption key is required when encryption is enabled")
    ELSE IF o.Compression # "" /\ o.Compression \notin ValidCompression
    THEN PlainErr("invalid compression type")
    ELSE IF o.CompressionLevel # 0 /\ (o.CompressionLevel < 1 \/ o.CompressionLevel > 9)
    THEN PlainErr("compression level must be between 1 and 9")
    ELSE NilErr

\* strings.ToLower on the type names of the model
ToLower(typeStr) == IF typeStr = "MySQL" THEN "mysql" ELSE typeStr

parseDatabaseType(typeStr) ==
    IF ToLower(typeStr) \in {"mysql", "postgres", "postgresql", "mongodb", "mongo", "sqlite"}
    THEN [type |-> ToLower(typeStr), err |-> NilErr]
    ELSE [type |-> "", err |-> PlainErr("unsupported database type")]

BackupID == "backup-1"
Locator == "backups/backup-1"

\* engine.CreateBackup: on success the artifact is in storage and the
\* descriptor returned says so; on failure an artifact may be left behind.
CreateBackup(ok, partial) ==
    IF ok
    THEN [metadata |-> [ID |-> BackupID, BackupPath |-> Locator, Status |-> "success"],
          err |-> NilErr, stored |-> {Locator}]
    ELSE [metadata |-> NoMetadata, err |-> PlainErr("dump failed"),
          stored |-> IF partial THEN {Locator} ELSE {}]

\* repo.Save: the descriptor is in the catalog exactly when Save succeeds
Save(cat, descriptor, ok) ==
    IF ok THEN [catalog |-> cat \cup {descriptor}, err |-> NilErr]
    ELSE [catalog |-> cat, err |-> PlainErr("write failed")]

RunReturn(err) ==
    /\ runErr' = err
    /\ runPc' = "done"

RunValidate_DryRunIgnored ==
    /\ runPc = "start"
    /\ IF validateBackupOptions(runOpts) # NilErr
       THEN RunReturn(validateBackupOptions(runOpts))
       ELSE runPc' = "repository" /\ UNCHANGED runErr
    /\ UNCHANGED <<runOpts, metadata, createErr, saveCalls, catalog, storage, nonCommandVars>>

\* flags, validateBackupOptions, dry run
RunValidate ==
    /\ runPc = "start"
    /\ IF validateBackupOptions(runOpts) # NilErr
       THEN RunReturn(validateBackupOptions(runOpts))
       ELSE IF runOpts.DryRun THEN RunReturn(NilErr)
       ELSE runPc' = "repository" /\ UNCHANGED runErr
    /\ UNCHANGED <<runOpts, metadata, createErr, saveCalls, catalog, storage, nonCommandVars>>

\* backup.NewEngine, repository.NewFileRepository, parseDatabaseType
RunNewRepository ==
    /\ runPc = "repository"
    /\ \E ok \in BOOLEAN :
          IF ~ok
          THEN RunReturn(Errorf("failed to create repository", PlainErr("mkdir failed")))
          ELSE IF parseDatabaseType(runOpts.Type).err # NilErr
          THEN RunReturn(parseDatabaseType(runOpts.Type).err)
          ELSE runPc' = "create" /\ UNCHANGED runErr
    /\ UNCHANGED <<runOpts, metadata, createErr, saveCalls, catalog, storage, nonCommandVars>>

RunCreateBackup_ErrorIgnored ==
    /\ runPc = "create"
    /\ \E ok \in BOOLEAN, partial \in BOOLEAN :
          LET r == CreateBackup(ok, partial)
          IN  /\ metadata' = r.metadata
              /\ createErr' = r.err
              /\ storage' = storage \cup r.stored
              /\ runPc' = "save"
              /\ UNCHANGED runErr
    /\ UNCHANGED <<runOpts, saveCalls, catalog, nonCommandVars>>

\* metadata, err := engine.CreateBackup(ctx, backupOpts)
RunCreateBackup ==
    /\ runPc = "create"
    /\ \E ok \in BOOLEAN, partial \in BOOLEAN :
          LET r == CreateBackup(ok, partial)
          IN  /\ metadata' = r.metadata
              /\ createErr' = r.err
              /\ storage' = storage \cup r.stored
              /\ IF r.err # NilErr
                 THEN RunReturn(Errorf("backup failed", r.err))
                 ELSE runPc' = "save" /\ UNCHANGED runErr
    /\ UNCHANGED <<runOpts, saveCalls, catalog, nonCommandVars>>

\* repo.Save(ctx, metadata), then the report and return nil
RunSave ==
    /\ runPc = "save"
    /\ \E ok \in BOOLEAN :
          LET r == Save(catalog, metadata, ok)
          IN  /\ saveCalls' = Append(saveCalls, ok)
              /\ catalog' = r.catalog
              /\ IF r.err # NilErr
                 THEN RunReturn(Errorf("failed to save metadata", r.err))
                 ELSE RunReturn(NilErr)
    /\ UNCHANGED <<runOpts, metadata, createErr, storage, nonCommandVars>>

InitCommand ==
    /\ runOpts \in FlagSet
    /\ runPc = "start"
    /\ runErr = NilErr
    /\ metadata = NoMetadata
    /\ createErr = NilErr
    /\ saveCalls = <<>>
    /\ catalog = {}
    /\ storage = {}
    /\ NonCommandIdle

NextCommand ==
    \/ RunValidate
    \/ RunNewRepository
    \/ RunCreateBackup
    \/ RunSave

SpecCommand == InitCommand /\ [][NextCommand]_vars

C14_NoOrphanAfterSaveFailure ==
    (runPc = "done" /\ createErr = NilErr /\ saveCalls = <<FALSE>>) =>
        \/ metadata.BackupPath \notin storage
        \/ \E d \in catalog : d.BackupPath = metadata.BackupPath /\ d.Status = "failed"

\* C23: with --dry-run the backup command validates the options and
\* returns: nil when they are valid, the validation error when they are
\* not.  It creates no engine and no repository, never calls CreateBackup
\* or Save, and writes nothing to storage or catalog.
C23_DryRunWritesNothing ==
    runOpts.DryRun =>
        /\ runPc \in {"start", "done"}
        /\ runPc = "done" => runErr = validateBackupOptions(runOpts)
        /\ metadata = NoMetadata
        /\ createErr = NilErr
        /\ saveCalls = <<>>
        /\ catalog = {}
        /\ storage = {}

C23_Witness ==
    /\ runOpts.DryRun
    /\ runPc = "done"
    /\ runErr = NilErr
    /\ validateBackupOptions(runOpts) = NilErr

\* C29: whenever validateBackupOptions has returned nil, for every database
\* type: Encrypt implies a non-empty EncryptionKey, Compression is "" or
\* one of gzip, zstd, lz4, none, CompressionLevel is 0 or in 1..9, and
\* parseDatabaseType accepts Type.
C29_ValidatedOptionsWellFormed ==
    (runPc # "start" /\ validateBackupOptions(runOpts) = NilErr) =>
        /\ runOpts.Encrypt => runOpts.EncryptionKey # ""
        /\ runOpts.Compression \in {""} \cup ValidCompression
        /\ runOpts.CompressionLevel = 0 \/ runOpts.CompressionLevel \in 1..9
        /\ parseDatabaseType(runOpts.Type).err = NilErr

(***************************************************************************)
(* GenerateBackupID (pkg/utils).  Goroutines mint IDs concurrently; each   *)
(* call reads the clock twice, and every reading of the clock is later     *)
(* than the one before it.                                                 *)
(***************************************************************************)
MaxMinters == 2
MaxSec == 1

Minters == 1..MaxMinters

\* the second in which the model's clock starts
BaseTime == [year |-> 2025, month |-> 1, day |-> 15, hour |-> 14, min |-> 30, sec |-> 22]

\* nanoseconds within the second
NanoChoices == {0, 7, 123456, 999999, 1000007}

Instants == [sec : 0..MaxSec, nano : NanoChoices]

Before(t, u) == t.sec < u.sec \/ (t.sec = u.sec /\ t.nano < u.nano)

DigitChars == <<"0", "1", "2", "3", "4", "5", "6", "7", "8", "9">>

\* %d
RECURSIVE Itoa(_)
Itoa(n) ==
    IF n < 10 THEN <<DigitChars[n + 1]>>
    ELSE Itoa(n \div 10) \o <<DigitChars[(n % 10) + 1]>>

\* a field of the layout: decimal, zero-padded to its width
Pad(n, width) ==
    IF Len(Itoa(n)) >= width THEN Itoa(n)
    ELSE Repeat("0", width - Len(Itoa(n))) \o Itoa(n)

\* time.Now().Format("20060102-150405")
Format(t) ==
    Pad(BaseTime.year, 4) \o Pad(BaseTime.month, 2) \o Pad(BaseTime.day, 2)
    \o <<"-">>
    \o Pad(BaseTime.hour, 2) \o Pad(BaseTime.min, 2) \o Pad(BaseTime.sec + t.sec, 2)

\* time.Now().UnixNano() % 1000000: whole seconds are multiples of 1000000 ns
NanoSuffix(t) == t.nano % 1000000

\* fmt.Sprintf("backup-%s-%d", <formatted>, <nanoseconds>)
GenerateBackupID(formatted, t) ==
    <<"b", "a", "c", "k", "u", "p", "-">> \o formatted \o <<"-">> \o Itoa(NanoSuffix(t))

\* first argument of Sprintf: time.Now().Format(...)
MintFormat(g) ==
    /\ mintPc[g] = "idle"
    /\ \E t \in Instants :
          /\ Before(now, t)
          /\ now' = t
          /\ stamp' = [stamp EXCEPT ![g] = Format(t)]
    /\ mintPc' = [mintPc EXCEPT ![g] = "formatted"]
    /\ UNCHANGED <<minted, nonMintVars>>

\* second argument: time.Now().UnixNano() % 1000000; the ID is returned
MintReturn(g) ==
    /\ mintPc[g] = "formatted"
    /\ \E t \in Instants :
          /\ Before(now, t)
          /\ now' = t
          /\ minted' = Append(minted, GenerateBackupID(stamp[g], t))
    /\ mintPc' = [mintPc EXCEPT ![g] = "done"]
    /\ UNCHANGED <<stamp, nonMintVars>>

InitMint ==
    /\ now \in Instants
    /\ mintPc = [g \in Minters |-> "idle"]
    /\ stamp = [g \in Minters |-> <<>>]
    /\ minted = <<>>
    /\ NonMintIdle

NextMint == \E g \in Minters : MintFormat(g) \/ MintReturn(g)

SpecMint == InitMint /\ [][NextMint]_vars

\* C15: every ID GenerateBackupID returns has the canonical format
\* backup-YYYY-MM-DD-HH-MM-SS-<8 hex> and is accepted by ValidateBackupID.
C15_MintedIDsCanonical ==
    \A i \in 1..Len(minted) : ValidateBackupID(minted[i]) = Nil

\* C16: any two calls of GenerateBackupID, concurrent or in the same
\* second, return different IDs.
C16_MintedIDsUnique ==
    \A i, j \in 1..Len(minted) : i # j => minted[i] # minted[j]

(***************************************************************************)
(* The driver registry (internal/database).  Goroutines call               *)
(* RegisterDriver and CreateDriver concurrently, one call each; every      *)
(* step between two operations on driversMu or the map is one action.      *)
(***************************************************************************)
MaxThreads == 3

Threads == 1..MaxThreads
Kinds == {"mongodb", "mysql"}
Factories == {"NewMongoDBDriver", "NewMySQLDriver"}
NoFactory == "none"

CallChoices ==
    {[fn |-> "RegisterDriver", dbType |-> k, factory |-> f] : k \in Kinds, f \in Factories}
    \cup {[fn |-> "CreateDriver", dbType |-> k, factory |-> NoFactory] : k \in Kinds}

NoDriverError == [Type |-> "", Message |-> ""]
NoReturn == [driver |-> 0, err |-> NoDriverError]

\* &DriverError{Type: dbType, Message: "no driver registered ..."}
DriverError(dbType) ==
    [Type |-> dbType, Message |-> "no driver registered for database type: " \o dbType]

\* factory(): the registered factories return a new, unconnected driver
NewDriver(factory) == [factory |-> factory, client |-> "nil", config |-> "nil"]

\* driversMu.Lock()
RegisterLock(t) ==
    /\ calls[t].fn = "RegisterDriver" /\ regPc[t] = "start"
    /\ driversMu.writer = 0 /\ driversMu.readers = {}
    /\ driversMu' = [driversMu EXCEPT !.writer = t]
    /\ regPc' = [regPc EXCEPT ![t] = "locked"]
    /\ UNCHANGED <<driverRegistry, calls, lookup, returned, instances, nonRegistryVars>>

\* driverRegistry[dbType] = factory
RegisterStore(t) ==
    /\ calls[t].fn = "RegisterDriver" /\ regPc[t] = "locked"
    /\ driverRegistry' = [driverRegistry EXCEPT ![calls[t].dbType] = calls[t].factory]
    /\ regPc' = [regPc EXCEPT ![t] = "stored"]
    /\ UNCHANGED <<driversMu, calls, lookup, returned, instances, nonRegistryVars>>

\* the deferred driversMu.Unlock()
RegisterUnlock(t) ==
    /\ calls[t].fn = "RegisterDriver" /\ regPc[t] = "stored"
    /\ driversMu' = [driversMu EXCEPT !.writer = 0]
    /\ regPc' = [regPc EXCEPT ![t] = "done"]
    /\ UNCHANGED <<driverRegistry, calls, lookup, returned, instances, nonRegistryVars>>

CreateRLock_WriterIgnored(t) ==
    /\ calls[t].fn = "CreateDriver" /\ regPc[t] = "start"
    /\ driversMu' = [driversMu EXCEPT !.readers = @ \cup {t}]
    /\ regPc' = [regPc EXCEPT ![t] = "rlocked"]
    /\ UNCHANGED <<driverRegistry, calls, lookup, returned, instances, nonRegistryVars>>

\* driversMu.RLock()
CreateRLock(t) ==
    /\ calls[t].fn = "CreateDriver" /\ regPc[t] = "start"
    /\ driversMu.writer = 0
    /\ driversMu' = [driversMu EXCEPT !.readers = @ \cup {t}]
    /\ regPc' = [regPc EXCEPT ![t] = "rlocked"]
    /\ UNCHANGED <<driverRegistry, calls, lookup, returned, instances, nonRegistryVars>>

\* factory, ok := driverRegistry[dbType]
CreateLookup(t) ==
    /\ calls[t].fn = "CreateDriver" /\ regPc[t] = "rlocked"
    /\ lookup' = [lookup EXCEPT ![t] =
                    [factory |-> driverRegistry[calls[t].dbType],
                     ok |-> driverRegistry[calls[t].dbType] # NoFactory]]
    /\ regPc' = [regPc EXCEPT ![t] = "looked"]
    /\ UNCHANGED <<driverRegistry, driversMu, calls, returned, instances, nonRegistryVars>>

\* driversMu.RUnlock()
CreateRUnlock(t) ==
    /\ calls[t].fn = "CreateDriver" /\ regPc[t] = "looked"
    /\ driversMu' = [driversMu EXCEPT !.readers = @ \ {t}]
    /\ regPc' = [regPc EXCEPT ![t] = "unlocked"]
    /\ UNCHANGED <<driverRegistry, calls, lookup, returned, instances, nonRegistryVars>>

CreateReturn_InstanceReused(t) ==
    /\ calls[t].fn = "CreateDriver" /\ regPc[t] = "unlocked"
    /\ IF ~lookup[t].ok
       THEN /\ returned' = [returned EXCEPT ![t] =
                              [driver |-> 0, err |-> DriverError(calls[t].dbType)]]
            /\ UNCHANGED instances
       ELSE LET made == {i \in 1..Len(instances) : instances[i].factory = lookup[t].factory}
            IN  IF made # {}
                THEN /\ returned' = [returned EXCEPT ![t] =
                                       [driver |-> CHOOSE i \in made : TRUE,
                                        err |-> NoDriverError]]
                     /\ UNCHANGED instances
                ELSE /\ instances' = Append(instances, NewDriver(lookup[t].factory))
                     /\ returned' = [returned EXCEPT ![t] =
                                       [driver |-> Len(instances) + 1, err |-> NoDriverError]]
    /\ regPc' = [regPc EXCEPT ![t] = "done"]
    /\ UNCHANGED <<driverRegistry, driversMu, calls, lookup, nonRegistryVars>>

\* if !ok { return nil, &DriverError{...} }; return factory(), nil
CreateReturn(t) ==
    /\ calls[t].fn = "CreateDriver" /\ regPc[t] = "unlocked"
    /\ IF ~lookup[t].ok
       THEN /\ returned' = [returned EXCEPT ![t] =
                              [driver |-> 0, err |-> DriverError(calls[t].dbType)]]
            /\ UNCHANGED instances
       ELSE /\ instances' = Append(instances, NewDriver(lookup[t].factory))
            /\ returned' = [returned EXCEPT ![t] =
                              [driver |-> Len(instances) + 1, err |-> NoDriverError]]
    /\ regPc' = [regPc EXCEPT ![t] = "done"]
    /\ UNCHANGED <<driverRegistry, driversMu, calls, lookup, nonRegistryVars>>

InitRegistry ==
    /\ driverRegistry = [k \in Kinds |-> NoFactory]
    /\ driversMu = [writer |-> 0, readers |-> {}]
    /\ calls \in [Threads -> CallChoices]
    /\ regPc = [t \in Threads |-> "start"]
    /\ lookup = [t \in Threads |-> [factory |-> NoFactory, ok |-> FALSE]]
    /\ returned = [t \in Threads |-> NoReturn]
    /\ instances = <<>>
    /\ NonRegistryIdle

ThreadStep(t) ==
    \/ RegisterLock(t)
    \/ RegisterStore(t)
    \/ RegisterUnlock(t)
    \/ CreateRLock(t)
    \/ CreateLookup(t)
    \/ CreateRUnlock(t)
    \/ CreateReturn(t)

NextRegistry == \E t \in Threads : ThreadStep(t)

SpecRegistry == InitRegistry /\ [][NextRegistry]_vars

\* The scheduler runs every goroutine that can take a step, and the mutex
\* hands the lock to a waiting goroutine once it is free.
SpecRegistryFair == SpecRegistry /\ \A t \in Threads : WF_vars(ThreadStep(t))

Creators == {t \in Threads : calls[t].fn = "CreateDriver" /\ regPc[t] = "done"}

\* C17: CreateDriver(kind) returns a new instance made by the factory it
\* found for kind, and a nil error, when a factory is registered; it returns
\* a nil driver and a DriverError naming the kind when none is.  Two calls
\* never return the same instance, and a new instance is unconnected.
C17_CreateDriverResult ==
    /\ \A t \in Creators :
          IF lookup[t].ok
          THEN /\ returned[t].err = NoDriverError
               /\ returned[t].driver \in 1..Len(instances)
               /\ instances[returned[t].driver] = NewDriver(lookup[t].factory)
          ELSE /\ returned[t].driver = 0
               /\ returned[t].err = DriverError(calls[t].dbType)
               /\ returned[t].err # NoDriverError
    /\ \A t, u \in Creators :
          (t # u /\ returned[t].driver # 0) => returned[t].driver # returned[u].driver

C17_Witness ==
    \E t, u \in Creators :
        /\ t # u
        /\ calls[t].dbType = calls[u].dbType
        /\ returned[t].driver # 0
        /\ returned[u].driver # 0

\* the RegisterDriver calls whose store has happened
Stored ==
    {[dbType |-> calls[u].dbType, factory |-> calls[u].factory] :
        u \in {v \in Threads : calls[v].fn = "RegisterDriver" /\ regPc[v] \in {"stored", "done"}}}

RegistryLockInv ==
    /\ driversMu.writer # 0 => driversMu.readers = {}
    /\ \A t \in Threads :
          /\ (calls[t].fn = "RegisterDriver" /\ regPc[t] \in {"locked", "stored"})
                <=> driversMu.writer = t
          /\ (calls[t].fn = "CreateDriver" /\ regPc[t] \in {"rlocked", "looked"})
                <=> t \in driversMu.readers
          /\ regPc[t] = "looked" => lookup[t].factory = driverRegistry[calls[t].dbType]
          /\ (calls[t].fn = "CreateDriver" /\ regPc[t] \in {"looked", "unlocked", "done"}
                /\ lookup[t].ok)
                => [dbType |-> calls[t].dbType, factory |-> lookup[t].factory] \in Stored

Quiescent ==
    /\ \A t \in Threads : regPc[t] = "done"
    /\ driversMu = [writer |-> 0, readers |-> {}]

\* C18: under every interleaving of RegisterDriver and CreateDriver calls
\* the map is written only by the goroutine that holds driversMu
\* exclusively and read only by goroutines that hold it shared, no reader
\* holds it while a writer does, a CreateDriver sees no factory or one that
\* a RegisterDriver call stored, and in the end every call has returned
\* and the lock is free.
C18_RegistryGuardedAndLive == []RegistryLockInv /\ <>[]Quiescent

C18_Witness ==
    \E t, u \in Threads :
        /\ driversMu.writer = t
        /\ regPc[t] = "stored"
        /\ calls[u].fn = "CreateDriver"
        /\ regPc[u] = "start"
        /\ calls[u].dbType = calls[t].dbType

\* C19: once a factory is registered for a kind, no later RegisterDriver
\* call changes the factory registered for that kind.
C19_RegistryWriteOnce ==
    [][\A k \in Kinds :
          driverRegistry[k] # NoFactory => driverRegistry'[k] = driverRegistry[k]]_vars

(***************************************************************************)
(* The connection handle of one driver instance.  Connect and Disconnect   *)
(* have the same shape in the three drivers: d.db is a *sql.DB in the      *)
(* relational drivers and d.client a *mongo.Client in the document driver. *)
(* A handle is a number, in the order the instance opened them.            *)
(***************************************************************************)
MaxHandles == 3
ConnConfigs == {1, 2}

OpenHandles == {h \in 1..Len(handles) : handles[h] = "open"}

\* return err from Connect or Disconnect
ConnReturn(fn, err) ==
    conn' = [fn |-> fn, pc |-> "idle", config |-> 0, handle |-> 0, err |-> err]

\* db, err := sql.Open(...) / client, err := mongo.Connect(...)
ConnectOpen ==
    /\ conn.pc = "idle"
    /\ Len(handles) < MaxHandles
    /\ \E cfg \in ConnConfigs, ok \in BOOLEAN :
          IF ok
          THEN /\ handles' = Append(handles, "open")
               /\ conn' = [fn |-> "Connect", pc |-> "opened", config |-> cfg,
                           handle |-> Len(handles) + 1, err |-> NilErr]
          ELSE /\ ConnReturn("Connect", ErrDatabaseConnection(PlainErr("open failed")))
               /\ UNCHANGED handles
    /\ UNCHANGED <<db, dbConfig, nonConnVars>>

\* db.PingContext(ctx); on failure db.Close() and return
ConnectPing ==
    /\ conn.pc = "opened"
    /\ \E ok \in BOOLEAN :
          IF ok
          THEN /\ conn' = [conn EXCEPT !.pc = "pinged"]
               /\ UNCHANGED handles
          ELSE /\ handles' = [handles EXCEPT ![conn.handle] = "closed"]
               /\ ConnReturn("Connect", ErrDatabaseConnection(PlainErr("ping failed")))
    /\ UNCHANGED <<db, dbConfig, nonConnVars>>

\* d.db = db; d.config = config; return nil
ConnectStore ==
    /\ conn.pc = "pinged"
    /\ db' = conn.handle
    /\ dbConfig' = conn.config
    /\ ConnReturn("Connect", NilErr)
    /\ UNCHANGED <<handles, nonConnVars>>

\* if d.db != nil { return d.db.Close() }; return nil
DisconnectClose ==
    /\ conn.pc = "idle"
    /\ handles' = IF db # 0 THEN [handles EXCEPT ![db] = "closed"] ELSE handles
    /\ ConnReturn("Disconnect", NilErr)
    /\ UNCHANGED <<db, dbConfig, nonConnVars>>

InitConn ==
    /\ ConnIdle
    /\ NonConnIdle

NextConn ==
    \/ ConnectOpen
    \/ ConnectPing
    \/ ConnectStore
    \/ DisconnectClose

SpecConn == InitConn /\ [][NextConn]_vars

\* C28: between calls at most one handle the instance opened is open, and
\* after Disconnect none is: a second Connect does not leave the handle of
\* the first open, and a failed Connect closes its own handle.
C28_AtMostOneOpenHandle ==
    conn.pc = "idle" =>
        /\ Cardinality(OpenHandles) <= 1
        /\ conn.fn = "Disconnect" => OpenHandles = {}

=============================================================================
